---- MODULE Spec2Model ----
(***************************************************************************)
(* remote-haptics: the line protocol of remote_haptics/api.py.             *)
(*                                                                         *)
(* HapticServerProtocol (one accepted connection) and HapticClientProtocol *)
(* are modelled as two state machines, each driven by its peer as an       *)
(* environment:                                                            *)
(*   SpecServer  the server handler, fed arbitrary reads by a client       *)
(*   SpecClient  the client state machine, fed arbitrary replies           *)
(*   SpecClientSteady  the client with a constant haptics source and a     *)
(*               server that answers each command once, at any later time  *)
(*                                                                         *)
(* Text.  A read (the bytes handed to data_received) is a sequence of      *)
(* tokens; a token is a piece of text that none of the handlers looks      *)
(* inside: a keyword, a prefix, a decimal literal, a comma, a CRLF.        *)
(* strip(), startswith(), ==, split(",") and float() are computed on       *)
(* token sequences.                                                        *)
(*                                                                         *)
(* Numbers.  An intensity is an integer count of 10^-7 (one decimal more   *)
(* than PROTOCOL_HAPTICS_PRECISION), so 1.0 is 10000000.                   *)
(*                                                                         *)
(* Time.  The unit is 1/120 s.  The code stores timestamps and subtracts   *)
(* them from datetime.now(); the model stores the age of each timestamp    *)
(* (now - timestamp), which Tick advances.  An age saturates at a cap      *)
(* above every threshold it is compared with.  A pending asyncio.sleep is  *)
(* the time remaining until it returns; time cannot pass a due timer.      *)
(***************************************************************************)
EXTENDS Integers, Sequences, FiniteSets, TLC

VARIABLES
    \* ---- HapticServerProtocol, one connection
    s_transport,     \* self.__transport: "none" | "set"
    s_closing,       \* the transport was closed (close() or a fatal error)
    s_lost,          \* connection_lost has run
    s_prev_age,      \* age of self.__previous_cmd_txh_time, NoTime for None
    s_timers,        \* pending __send_txh_reply_delayed tasks: remaining delays
    s_wire,          \* what the transport wrote to the peer, in order
    s_cb,            \* the callbacks invoked, in order
    s_rx,            \* history: the reads handed to data_received
    s_ack_age,       \* history: age of the last txh ACK written, NoTime if none
    s_ack_gap,       \* history: time between the last two txh ACKs written
    \* ---- ReceiverManager (the object behind the server's callbacks)
    receiver,        \* its fields __recording_enabled and __recorder
    writers,         \* the HapticsWriter objects constructed, in order
    \* ---- HapticClientProtocol
    c_state,         \* self.__connection_state
    c_session_type,  \* self.__session_type (constructor argument)
    c_closing,       \* the transport is closed (close() or the peer left)
    c_last,          \* self.__last_haptics_intensities
    c_dup_age,       \* age of self.__last_haptics_intensities_duped
    c_timers,        \* pending __send_haptics_data_delayed tasks: remaining delays
    c_out,           \* every message passed to __send, in order
    c_hs,            \* history: the reads received before ACTIVE
    c_ev,            \* history: the handler that ran last
    c_pull,          \* history: what the pull of the last step did, if it pulled
    c_steady,        \* history: no pull since the last txh returned nothing
    c_unacked,       \* history: txh sent and not yet answered
    c_gap,           \* history: if the last step sent a txh, the time since the txh before it
    \* ---- recording: entries and their lines
    e_entry,         \* an entry object (EntryInputs, EntryRemark, EntryMedia...)
    e_str,           \* what to_record_str() returned for it, once called
    e_back,          \* what get_entry_from_line returned for that line, once called
    \* ---- recording.HapticsReader
    rec_file,        \* the lines of the file the reader was opened on
    reader,          \* the fields of the reader and its place in the file
    rd_hist,         \* history: the calls of get_records_until and their results
    \* ---- haptics_send.FeedbackMapperPlayback
    player,          \* the fields of the playback mapper that owns the reader
    pl_hist,         \* history: the call that ran last, and the time played
    \* ---- recording.merge_recordings
    m_inputs,        \* the recordings named by recording_filenames, in order
    m_out,           \* the output file and how the call ended, once called
    \* ---- haptics_receive.FeedbackMapper
    mapper,          \* the fields of one mapper
    mp_loop,         \* the event loop's pending call_later handles: remaining delays
    mp_out,          \* what the last apply_outputs set: strong and weak intensity
    mp_hist,         \* history: the handler that ran last and what it computed
    \* ---- several connections to one ReceiverManager
    sh_conns,        \* per connection: its place in its life, and history
    sh_log,          \* history: the vectors received, and the writer handed each
    \* ---- the HapticServerProtocol objects of several connections
    pc_proto,        \* per protocol object: its transport, txh time and delayed tasks
    pc_wire,         \* per transport: whether it was closed, and what was written
    pc_ev            \* history: the handler that ran last

serverVars == <<s_transport, s_closing, s_lost, s_prev_age, s_timers, s_wire,
                s_cb, s_rx, s_ack_age, s_ack_gap, receiver, writers>>
clientVars == <<c_state, c_session_type, c_closing, c_last, c_dup_age, c_timers,
                c_out, c_hs, c_ev, c_pull, c_steady, c_unacked, c_gap>>
entryVars == <<e_entry, e_str, e_back>>
playVars == <<player, pl_hist>>
readerVars == <<rec_file, reader, rd_hist, playVars>>
mergeVars == <<m_inputs, m_out>>
mapperVars == <<mapper, mp_loop, mp_out, mp_hist>>
pacedVars == <<pc_proto, pc_wire, pc_ev>>
sharedVars == <<sh_conns, sh_log, pacedVars>>
toolVars == <<entryVars, readerVars, mergeVars, mapperVars, sharedVars>>
vars == <<serverVars, clientVars, toolVars>>

----------------------------------------------------------------------------
\* Program constants (time in units of 1/120 s)

\* haptics.MAX_UPDATE_RATE_SECS = 1 / 60
MAX_UPDATE_RATE_SECS == 2
\* haptics.PERSIST_DURATION_SECS = 15
PERSIST_DURATION_SECS == 1800
\* api.PROTOCOL_SEND_DUPLICATE_INTERVAL_SECS = PERSIST_DURATION_SECS * 0.95
PROTOCOL_SEND_DUPLICATE_INTERVAL_SECS == (PERSIST_DURATION_SECS * 95) \div 100
\* api.PROTOCOL_HAPTICS_PRECISION = 6
PROTOCOL_HAPTICS_PRECISION == 6
\* api.PROTOCOL_CRASH_ON_ERROR = True
PROTOCOL_CRASH_ON_ERROR == TRUE

\* recording.RECORDING_FLUSH_INTERVAL_SECS = 30
RECORDING_FLUSH_INTERVAL_SECS == 3600
\* recording.RECORDING_TIMESTAMP_INTERVAL_SECS = 60
RECORDING_TIMESTAMP_INTERVAL_SECS == 7200
\* recording.RECORDING_DUPLICATE_INTERVAL_SECS = max(0, 10 * 60 - PERSIST_DURATION_SECS)
RECORDING_DUPLICATE_INTERVAL_SECS ==
    IF 10 * 60 * 120 > PERSIST_DURATION_SECS
    THEN 10 * 60 * 120 - PERSIST_DURATION_SECS ELSE 0

\* 1.0 and one unit of the last kept decimal, in units of 10^-7
One == 10^(PROTOCOL_HAPTICS_PRECISION + 1)
Ulp == One \div 10^PROTOCOL_HAPTICS_PRECISION

\* Bounds of the model
MaxReads == 3        \* reads one server connection receives
MaxPending == 2      \* delayed tasks pending at once, per protocol object
SrvAgeCap == 3       \* saturation of the server's ages
MaxTxh == 2          \* txh commands the client passes to __send
DupAgeCap == 1805    \* saturation of the client's ages
MaxQuiet == 6        \* SpecClient: time followed after a transmission
MaxSessionAge == 4   \* SpecServer: time followed after a recording was opened
MaxLines == 6        \* SpecWriter: lines of a recording file before its footer
MaxWriterAge == 75600  \* SpecWriter: time followed after the file was opened
MaxEntries == 3      \* SpecReader: entry lines of a recording file
MaxCalls == 2        \* SpecReader: calls of get_records_until
MaxMergeEntries == 2 \* SpecMerge: entry lines of an input recording
MaxRecordings == 2   \* SpecMerge: recordings given to merge_recordings
MaxMapperInputs == 3 \* SpecMapper: calls of parse_inputs
MaxInputDelay == 4   \* SpecMapper: time between two inputs while a timer is pending
MaxMapperAge == 3    \* SpecMapper: time followed after an update that armed no timer
MaxAverage == 2      \* SpecMapper: largest average a pause of the input is followed from
MaxConnections == 2  \* SpecShared: connections accepted by the server
MaxSharedVectors == 3 \* SpecShared: vectors received over all connections
MaxSharedWriters == 2 \* SpecShared: recordings opened over all connections
MaxRetrieves == 3    \* SpecPlayback: calls of retrieve_inputs
MaxPlayClock == 3    \* SpecPlayback: seconds of wall-clock time followed
MaxSessionVectors == 1 \* SpecSessions: vectors received over all connections
MaxPacedTxh == 4     \* SpecPaced: txh commands delivered over all connections
DecayTicks == 52     \* SpecMapper: ticks counted while an input of 0 is held

NoTime == 0 - 1

----------------------------------------------------------------------------
\* Text

Tok(k) == [k |-> k, v |-> 0]
Num(v) == [k |-> "num", v |-> v]
CRLF == Tok("CRLF")
LF == Tok("LF")
SPACE == Tok(" ")
COMMA == Tok(",")
COLON == Tok(":")

\* The whitespace str.strip() removes
IsSpace(t) == t \in {CRLF, LF, SPACE}

RECURSIVE LStrip(_)
LStrip(s) == IF s # <<>> /\ IsSpace(Head(s)) THEN LStrip(Tail(s)) ELSE s

RECURSIVE RStrip(_)
RStrip(s) ==
    IF s # <<>> /\ IsSpace(s[Len(s)]) THEN RStrip(SubSeq(s, 1, Len(s) - 1)) ELSE s

\* str.strip()
Strip(s) == RStrip(LStrip(s))

\* str.startswith(prefix), for a one-token prefix
StartsWith(s, p) == s # <<>> /\ Head(s) = p

\* str.split(","): never empty, "" gives [""]
RECURSIVE Split(_)
Split(s) ==
    IF \A i \in 1..Len(s) : s[i] # COMMA
    THEN <<s>>
    ELSE LET i == CHOOSE j \in 1..Len(s) :
                      s[j] = COMMA /\ \A h \in 1..(j - 1) : s[h] # COMMA
         IN  <<SubSeq(s, 1, i - 1)>> \o Split(SubSeq(s, i + 1, Len(s)))

\* text.split(sep) for a one-character separator
RECURSIVE SplitAt(_, _)
SplitAt(s, sep) ==
    IF \A i \in 1..Len(s) : s[i] # sep
    THEN <<s>>
    ELSE LET i == CHOOSE j \in 1..Len(s) :
                      s[j] = sep /\ \A h \in 1..(j - 1) : s[h] # sep
         IN  <<SubSeq(s, 1, i - 1)>> \o SplitAt(SubSeq(s, i + 1, Len(s)), sep)

\* sep.join(parts)
RECURSIVE JoinWith(_, _)
JoinWith(parts, sep) ==
    IF parts = <<>> THEN <<>>
    ELSE IF Len(parts) = 1 THEN parts[1]
    ELSE parts[1] \o <<sep>> \o JoinWith(Tail(parts), sep)

\* ",".join(map(str, values))
RECURSIVE Join(_)
Join(vs) ==
    IF vs = <<>> THEN <<>>
    ELSE IF Len(vs) = 1 THEN <<Num(vs[1])>>
    ELSE <<Num(vs[1]), COMMA>> \o Join(Tail(vs))

\* float(text): surrounding whitespace is accepted, anything but one decimal
\* literal raises ValueError
FloatOk(s) == Len(Strip(s)) = 1 /\ Strip(s)[1].k = "num"
Float(s) == Strip(s)[1].v

\* round(x, PROTOCOL_HAPTICS_PRECISION), ties to even
Round(x) ==
    LET q == x \div Ulp
        r == x % Ulp
    IN  IF 2 * r < Ulp THEN q * Ulp
        ELSE IF 2 * r > Ulp THEN (q + 1) * Ulp
        ELSE IF q % 2 = 0 THEN q * Ulp ELSE (q + 1) * Ulp

Min(a, b) == IF a < b THEN a ELSE b
Max(a, b) == IF a > b THEN a ELSE b

Capped_unclamped(x) == Round(x)

\* min(1, max(0, round(x, PROTOCOL_HAPTICS_PRECISION)))
Capped(x) == Min(One, Max(0, Round(x)))

CappedAll(vs) == [i \in 1..Len(vs) |-> Capped(vs[i])]

----------------------------------------------------------------------------
\* Protocol

CMD_HELP == <<Tok("help")>>
CMD_VERSION == <<Tok("ver")>>
CMD_QUIT == <<Tok("quit")>>
EOT == <<Tok("x04")>>
CMD_SESSION_TYPE_PREFIX == Tok("session_type:")
CMD_TRANSMIT_HAPTICS_PREFIX == Tok("txh:")
REPLY_GOOD == <<Tok("ACK")>>
REPLY_INVALID == <<Tok("INVALID_REQUEST")>>
SESSION_TYPE_LIVE == <<Tok("live")>>
SESSION_TYPE_PLAYBACK == <<Tok("playback")>>
VERSION == <<Tok("RemoteHaptics:0.1")>>
help_msg == <<Tok("Commands: ..."), CRLF, Tok("Example: txh:0.01,0.42")>>

\* "{}\r\n".format(message)
Framed(message) == message \o <<CRLF>>

\* api.SessionType
UNKNOWN == 0
LIVE == 1
PLAYBACK == 2

----------------------------------------------------------------------------
\* recording.HapticsWriter and the lines of a recording file

\* A timestamp in ISO format; the model writes it relative to the session start
Stamp(t) == [k |-> "stamp", v |-> t]
HEADER_VERSION == Tok("RemoteHapticsRecording:0.1")
HEADER_TIMESTAMP == Tok("@session_start:")
FOOTER_TIMESTAMP == Tok("@session_end:")
TIMESTAMP_COMMENT == Tok("# timestamp = ")

\* EntryInputs(session_start, time_delta, inputs).to_record_str()
InputsRecordStr(time_delta, inputs) ==
    <<Num(time_delta), COLON>> \o Join(inputs) \o <<LF>>

\* time_now - timestamp > interval; a timestamp of time_earliest has no age
Elapsed(age, interval) == age = NoTime \/ age > interval

\* HapticsWriter.__init__(filename): header lines, flush timer armed
WriterNew ==
    [ lines |-> << <<HEADER_VERSION, LF>>, <<HEADER_TIMESTAMP, Stamp(0), LF>> >>,
      closed |-> FALSE,
      now |-> 0,               \* time_now - self.__session_start
      last |-> <<>>,           \* self.__last_haptics_entries
      dup_age |-> NoTime,      \* age of self.__last_haptics_entries_duped
      ts_age |-> NoTime,       \* age of self.__last_timestamp_comment
      flush |-> RECORDING_FLUSH_INTERVAL_SECS,  \* self.__flush_timer: time left
      flushed |-> 2,           \* lines flushed to the file
      calls |-> <<>> ]         \* history: the arguments of append_record

WriteDue_at_interval(w, haptics_entries) ==
    \/ haptics_entries # w.last
    \/ w.dup_age = NoTime
    \/ w.dup_age >= RECORDING_DUPLICATE_INTERVAL_SECS

\* The condition of append_record: not a duplicate, or the interval elapsed
WriteDue(w, haptics_entries) ==
    \/ haptics_entries # w.last
    \/ Elapsed(w.dup_age, RECORDING_DUPLICATE_INTERVAL_SECS)

\* HapticsWriter.append_record(haptics_entries); writing to a closed file
\* raises before any field is assigned
AppendRecord(w, haptics_entries) ==
    LET called == [w EXCEPT !.calls = Append(@, haptics_entries)]
    IN  IF ~WriteDue(w, haptics_entries) \/ w.closed THEN called
        ELSE LET comment == Elapsed(w.ts_age, RECORDING_TIMESTAMP_INTERVAL_SECS)
             IN  [called EXCEPT
                    !.lines = @ \o (IF comment
                                    THEN << <<TIMESTAMP_COMMENT, Stamp(w.now), LF>> >>
                                    ELSE <<>>)
                                \o << InputsRecordStr(w.now, haptics_entries) >>,
                    !.ts_age = IF comment THEN 0 ELSE @,
                    !.last = haptics_entries,
                    !.dup_age = 0]

\* HapticsWriter.__flush_file_timer_cb()
FlushFileTimerCb(w) ==
    IF w.closed THEN [w EXCEPT !.flush = NoTime]
    ELSE [w EXCEPT !.flushed = Len(w.lines),
                   !.flush = RECORDING_FLUSH_INTERVAL_SECS]

CloseWriter_no_footer(w) ==
    IF w.closed THEN w ELSE [w EXCEPT !.closed = TRUE, !.flushed = Len(w.lines)]

\* HapticsWriter.close(); on a closed file the write raises
CloseWriter(w) ==
    IF w.closed THEN w
    ELSE [w EXCEPT !.lines = Append(@, <<FOOTER_TIMESTAMP, Stamp(w.now), LF>>),
                   !.closed = TRUE,
                   !.flushed = Len(w.lines) + 1]

\* Time d passes for a writer
WriterAge(w, d) ==
    [w EXCEPT !.now = @ + d,
              !.dup_age = IF @ = NoTime THEN @ ELSE @ + d,
              !.ts_age = IF @ = NoTime THEN @ ELSE @ + d,
              !.flush = IF @ = NoTime THEN @ ELSE @ - d]

\* Time d passes for a writer that nothing calls meanwhile: the flush timer
\* runs whenever it comes due before the end of d
RECURSIVE PassTime(_, _)
PassTime(w, d) ==
    IF w.flush = NoTime \/ w.flush >= d THEN WriterAge(w, d)
    ELSE PassTime(FlushFileTimerCb(WriterAge(w, w.flush)), d - w.flush)

----------------------------------------------------------------------------
\* recording: the entry classes, to_record_str and get_entry_from_line.
\* time_delta, offset and inputs are numbers in units of 10^-7.

LINE_REMARK == Tok("text=")
LINE_MEDIA == Tok("media=")
MEDIA_DEFAULT_ID == <<Tok("DEFAULT")>>
MEDIA_CMD_STOP == Tok("stop")
AT == Tok("@")

\* The entry objects, one record shape for all classes
EntryInputs(time_delta, inputs) ==
    [class |-> "EntryInputs", time_delta |-> time_delta, inputs |-> inputs,
     remark |-> <<>>, id |-> <<>>, offset |-> 0, media_file |-> <<>>]
EntryRemark(time_delta, remark) ==
    [class |-> "EntryRemark", time_delta |-> time_delta, inputs |-> <<>>,
     remark |-> remark, id |-> <<>>, offset |-> 0, media_file |-> <<>>]
EntryMediaStop(time_delta, id) ==
    [class |-> "EntryMediaStop", time_delta |-> time_delta, inputs |-> <<>>,
     remark |-> <<>>, id |-> id, offset |-> 0, media_file |-> <<>>]
EntryMediaPlay(time_delta, id, offset, media_file) ==
    [class |-> "EntryMediaPlay", time_delta |-> time_delta, inputs |-> <<>>,
     remark |-> <<>>, id |-> id, offset |-> offset, media_file |-> media_file]
NoEntry ==
    [class |-> "None", time_delta |-> 0, inputs |-> <<>>,
     remark |-> <<>>, id |-> <<>>, offset |-> 0, media_file |-> <<>>]
\* isinstance(entry, EntryMediaAbstract)
IsMedia(entry) == entry.class \in {"EntryMediaStop", "EntryMediaPlay"}

\* The outcome of a call: a value, or an exception
Returned(v) == [ok |-> TRUE, v |-> v]
Raised == [ok |-> FALSE, v |-> <<>>]

\* EntryAbstract.to_record_str(): round(time_delta, TIME_PRECISION_PLACES)
AbstractRecordStr(e) == <<Num(Round(e.time_delta))>>

\* EntryMediaAbstract.to_record_str(): no "@id" for the default id
MediaAbstractRecordStr(e) ==
    AbstractRecordStr(e) \o <<COLON, LINE_MEDIA>>
        \o (IF e.id # MEDIA_DEFAULT_ID THEN <<AT>> \o e.id ELSE <<>>)

\* to_record_str() of the four classes.  EntryMediaPlay calls
\* super(EntryMediaStop, self), which raises TypeError for an object that is
\* not an EntryMediaStop.
ToRecordStr(e) ==
    CASE e.class = "EntryInputs" ->
            Returned(AbstractRecordStr(e) \o <<COLON>> \o Join(e.inputs) \o <<LF>>)
      [] e.class = "EntryRemark" ->
            Returned(AbstractRecordStr(e) \o <<COLON, LINE_REMARK>> \o e.remark
                         \o <<LF>>)
      [] e.class = "EntryMediaStop" ->
            Returned(MediaAbstractRecordStr(e) \o <<COLON, MEDIA_CMD_STOP, LF>>)
      [] OTHER -> Raised

\* The media branch of get_entry_from_line, on the text after "media="
MediaEntryFrom(time_delta, text) ==
    LET split == SplitAt(text, COLON)
        has_id == split[1] # <<>> /\ split[1][1] = AT
        id == IF has_id THEN Tail(split[1]) ELSE MEDIA_DEFAULT_ID
        media_data == IF has_id THEN Tail(split) ELSE split
    IN  IF media_data = <<>> THEN Raised
        ELSE IF media_data[1] = <<MEDIA_CMD_STOP>>
             THEN Returned(EntryMediaStop(time_delta, id))
        ELSE IF ~FloatOk(media_data[1]) THEN Raised
        ELSE Returned(EntryMediaPlay(time_delta, id, Float(media_data[1]),
                                     JoinWith(Tail(media_data), COLON)))

\* get_entry_from_line(recording_start, line)
GetEntryFromLine(line) ==
    LET line_data == SplitAt(Strip(line), COLON)
        line_content == JoinWith(Tail(line_data), COLON)
    IN  IF ~FloatOk(line_data[1]) THEN Raised
        ELSE LET time_delta == Float(line_data[1])
             IN  IF StartsWith(line_content, LINE_REMARK)
                 THEN Returned(EntryRemark(time_delta, Tail(line_content)))
                 ELSE IF StartsWith(line_content, LINE_MEDIA)
                 THEN MediaEntryFrom(time_delta, Tail(line_content))
                 ELSE LET parts == Split(line_content)
                      IN  IF \E i \in 1..Len(parts) : ~FloatOk(parts[i]) THEN Raised
                          ELSE Returned(EntryInputs(time_delta,
                                   [i \in 1..Len(parts) |-> Float(parts[i])]))

\* No call made yet
NotCalled == [called |-> FALSE, ok |-> FALSE, v |-> <<>>]
Called(outcome) == [called |-> TRUE, ok |-> outcome.ok, v |-> outcome.v]

\* entry.to_record_str()
E_ToRecordStr ==
    /\ ~e_str.called
    /\ e_str' = Called(ToRecordStr(e_entry))
    /\ UNCHANGED <<e_entry, e_back, readerVars, mergeVars, mapperVars, sharedVars>>
    /\ UNCHANGED <<serverVars, clientVars>>

\* get_entry_from_line(start, line) on the line to_record_str returned
E_GetEntryFromLine ==
    /\ e_str.called /\ e_str.ok /\ ~e_back.called
    /\ e_back' = Called(GetEntryFromLine(e_str.v))
    /\ UNCHANGED <<e_entry, e_str, readerVars, mergeVars, mapperVars, sharedVars>>
    /\ UNCHANGED <<serverVars, clientVars>>

\* The entries of the check: every class, times with more than 6 decimals,
\* remarks and file names with ":" and "=", default and other media ids
TimeDeltas == { 0, 4, 421337000, 133350394 }
Remarks == { <<Tok("note")>>, <<Tok("a"), COLON, Tok("b=c")>>,
             <<Tok("note"), SPACE>> }
EntryVectors == { <<3019610, One>>, <<0>>, <<5000000, 9000000, 1234567>> }
MediaIds == { MEDIA_DEFAULT_ID, <<Tok("player1")>> }
MediaFiles == { <<Tok("/path/to/media.mp4")>>,
                <<Tok("C"), COLON, Tok("/media.mp4")>> }
Entries ==
    { EntryInputs(t, i) : t \in TimeDeltas, i \in EntryVectors }
    \cup { EntryRemark(t, r) : t \in TimeDeltas, r \in Remarks }
    \cup { EntryMediaStop(t, id) : t \in TimeDeltas, id \in MediaIds }
    \cup UNION { { EntryMediaPlay(t, id, o, f) : t \in TimeDeltas, id \in MediaIds } :
                 o \in {0, 0 - 54321000}, f \in MediaFiles }

EntryIdle == e_entry = NoEntry /\ e_str = NotCalled /\ e_back = NotCalled

----------------------------------------------------------------------------
\* recording.HapticsReader.  rec_file is the recording, a sequence of lines;
\* a record is an entry object, known by the line it was read from.

Record(line, entry) == [line |-> line, entry |-> entry]
NoRecord == Record(0, NoEntry)

\* max_prev_seconds of get_records_until
MAX_PREV_SECONDS == 3 * One

\* file.readline(): "" at the end of the file
ReadLine(file, pos) == IF pos > Len(file) THEN <<>> ELSE file[pos]

\* line.startswith("#")
IsComment(line) == StartsWith(line, TIMESTAMP_COMMENT)

Restart_unchecked(file, rd) ==
    [rd EXCEPT !.prev_time_delta = 0, !.current_record = NoRecord,
               !.pos = Min(3, Len(file) + 1)]

\* HapticsReader.__restart(): seek(0), check and read the two header lines;
\* __reached_end is left as it is
Restart(file, rd) ==
    LET first_line == ReadLine(file, 1)
        timestamp_line == ReadLine(file, 2)
        moved == [rd EXCEPT !.prev_time_delta = 0, !.current_record = NoRecord]
    IN  IF Strip(first_line) # <<HEADER_VERSION>>
        THEN [moved EXCEPT !.pos = Min(2, Len(file) + 1), !.ok = FALSE]
        ELSE IF ~StartsWith(timestamp_line, HEADER_TIMESTAMP)
                \/ Len(Strip(Tail(timestamp_line))) # 1
                \/ Strip(Tail(timestamp_line))[1].k # "stamp"
        THEN [moved EXCEPT !.pos = Min(3, Len(file) + 1), !.ok = FALSE]
        ELSE [moved EXCEPT !.pos = 3]

\* HapticsReader.__init__(filename, on_playback_finished)
ReaderNew(file) ==
    Restart(file, [pos |-> 1, reached_end |-> FALSE, prev_time_delta |-> 0,
                   current_record |-> NoRecord, finished |-> FALSE, ok |-> TRUE])

\* HapticsReader.get_next_record(): the reader after the call and the record
\* returned, NoRecord for None; a line that does not parse raises
RECURSIVE GetNextRecord(_, _)
GetNextRecord(file, rd) ==
    IF rd.reached_end THEN [rd |-> rd, record |-> NoRecord]
    ELSE LET line == ReadLine(file, rd.pos)
             read == [rd EXCEPT !.pos = Min(rd.pos + 1, Len(file) + 1)]
         IN  IF line = <<>> \/ StartsWith(line, FOOTER_TIMESTAMP)
             THEN [rd |-> [read EXCEPT !.reached_end = TRUE, !.finished = TRUE],
                   record |-> NoRecord]
             ELSE IF IsComment(line) THEN GetNextRecord(file, read)
             ELSE LET entry == GetEntryFromLine(line)
                  IN  IF entry.ok
                      THEN [rd |-> read, record |-> Record(rd.pos, entry.v)]
                      ELSE [rd |-> [read EXCEPT !.ok = FALSE], record |-> NoRecord]

Prune_keeps_all(records, records_pruned_media, time_delta) ==
    [records |-> records, records_pruned_media |-> records_pruned_media]

Prune_drops_media(records, records_pruned_media, time_delta) ==
    LET Recent(r) == ~(r.entry.time_delta < time_delta - MAX_PREV_SECONDS)
    IN  [records |-> SelectSeq(records, Recent),
         records_pruned_media |-> records_pruned_media]

\* The pruning loop of get_records_until: records older than max_prev_seconds
\* leave the head of the list, media records are kept by id in a dict, where
\* a key keeps the place of its first insertion
RECURSIVE Prune(_, _, _)
Prune(records, records_pruned_media, time_delta) ==
    IF records = <<>>
       \/ ~(Head(records).entry.time_delta < time_delta - MAX_PREV_SECONDS)
    THEN [records |-> records, records_pruned_media |-> records_pruned_media]
    ELSE LET r == Head(records)
             known == \E i \in 1..Len(records_pruned_media) :
                          records_pruned_media[i].entry.id = r.entry.id
             put == IF known
                    THEN [i \in 1..Len(records_pruned_media) |->
                              IF records_pruned_media[i].entry.id = r.entry.id
                              THEN r ELSE records_pruned_media[i]]
                    ELSE Append(records_pruned_media, r)
         IN  Prune(Tail(records),
                   IF IsMedia(r.entry) THEN put ELSE records_pruned_media,
                   time_delta)

\* The reading loop of get_records_until
RECURSIVE ReadUntil(_, _, _, _, _)
ReadUntil(file, rd, records, records_pruned_media, time_delta) ==
    IF rd.reached_end
       \/ ~(rd.current_record = NoRecord
            \/ rd.current_record.entry.time_delta < time_delta)
    THEN [rd |-> rd, records |-> records,
          records_pruned_media |-> records_pruned_media]
    ELSE LET included == IF rd.current_record # NoRecord
                         THEN Append(records, rd.current_record) ELSE records
             pruned == Prune(included, records_pruned_media, time_delta)
             next == GetNextRecord(file, rd)
         IN  IF next.record = NoRecord
             THEN [rd |-> next.rd, records |-> pruned.records,
                   records_pruned_media |-> pruned.records_pruned_media]
             ELSE ReadUntil(file,
                            [next.rd EXCEPT !.current_record = next.record],
                            pruned.records, pruned.records_pruned_media,
                            time_delta)

\* list.sort() with EntryAbstract.__lt__: stable, by time_delta
RECURSIVE Insert(_, _)
Insert(sorted, r) ==
    IF sorted = <<>> THEN <<r>>
    ELSE IF r.entry.time_delta < sorted[Len(sorted)].entry.time_delta
         THEN Append(Insert(SubSeq(sorted, 1, Len(sorted) - 1), r),
                     sorted[Len(sorted)])
         ELSE Append(sorted, r)
RECURSIVE Sort(_)
Sort(records) ==
    IF records = <<>> THEN <<>>
    ELSE Insert(Sort(SubSeq(records, 1, Len(records) - 1)), records[Len(records)])

\* HapticsReader.get_records_until(time_delta): the reader after the call and
\* the list returned; rd.ok tells whether the call returned or raised
GetRecordsUntil(file, rd, time_delta) ==
    LET called == [rd EXCEPT !.ok = TRUE]
        start == IF time_delta < rd.prev_time_delta
                 THEN Restart(file, called) ELSE called
        read == ReadUntil(file, [start EXCEPT !.prev_time_delta = time_delta],
                          <<>>, <<>>, time_delta)
    IN  IF ~start.ok THEN [rd |-> start, records |-> <<>>]
        ELSE IF ~read.rd.ok THEN [rd |-> read.rd, records |-> <<>>]
        ELSE [rd |-> read.rd,
              records |-> IF read.records_pruned_media # <<>>
                          THEN Sort(read.records \o read.records_pruned_media)
                          ELSE read.records]

NoReader ==
    [pos |-> 0, reached_end |-> FALSE, prev_time_delta |-> 0,
     current_record |-> NoRecord, finished |-> FALSE, ok |-> FALSE]

----------------------------------------------------------------------------
\* haptics_send.FeedbackMapperPlayback.  position is in the unit of the
\* entries' time_delta; since is the wall-clock time that has passed since
\* self.__player_last_retrieve_inputs, in seconds

\* input_peaks = None
NoPeaks == <<NoTime>>

\* [0] * n
Zeros(n) == [i \in 1..n |-> 0]

\* __init__: the fields are set, then __restart_playback() assigns position
\* 0, which the setter takes as no change, and player_playing False
PlayerNew ==
    [player_playing |-> FALSE, player_is_seeking |-> FALSE,
     player_position_sec |-> 0, since |-> 0, player_last_input_count |-> 0]

\* play()
Play(pl) == [pl EXCEPT !.player_playing = TRUE]

\* pause()
Pause(pl) == [pl EXCEPT !.player_is_seeking = TRUE, !.player_playing = FALSE]

\* position = value
SetPosition(pl, value) ==
    IF value = pl.player_position_sec THEN pl
    ELSE [pl EXCEPT !.player_is_seeking = TRUE, !.player_position_sec = value]

\* The loop of retrieve_inputs over the records: the peaks of the inputs
\* entries, restarted when there are none yet or the length changes; remarks
\* and media commands go to their callbacks
RECURSIVE Peaks(_, _, _)
Peaks(records, input_peaks, count) ==
    IF records = <<>> THEN [input_peaks |-> input_peaks, count |-> count]
    ELSE LET record == Head(records).entry
         IN  IF record.class # "EntryInputs"
             THEN Peaks(Tail(records), input_peaks, count)
             ELSE LET fresh == input_peaks = NoPeaks \/ input_peaks = <<>>
                                  \/ Len(record.inputs) # count
                      n == IF fresh THEN Len(record.inputs) ELSE count
                      before == IF fresh THEN Zeros(n) ELSE input_peaks
                  IN  Peaks(Tail(records),
                            [i \in 1..n |-> Max(record.inputs[i], before[i])], n)

\* The end of retrieve_inputs: the position and the time of the call are
\* kept, the peaks are returned
Retrieved(pl, time_delta_sec, rd, peaks) ==
    [pl |-> [pl EXCEPT !.player_last_input_count = peaks.count,
                       !.player_position_sec = time_delta_sec,
                       !.since = 0],
     rd |-> rd, ok |-> TRUE, v |-> peaks.input_peaks]

\* retrieve_inputs() while playing, from the records the reader returned
RetrieveRecords(pl, time_delta_sec, call) ==
    IF ~call.rd.ok
    THEN [pl |-> pl, rd |-> call.rd, ok |-> FALSE, v |-> NoPeaks]
    ELSE Retrieved(pl, time_delta_sec, call.rd,
                   Peaks(call.records, NoPeaks, pl.player_last_input_count))

\* retrieve_inputs(): the player and the reader after the call and what it
\* returned; ok tells whether it returned or the reader raised
RetrieveInputs(file, pl, rd) ==
    IF ~pl.player_playing
    THEN [pl |-> pl, rd |-> rd, ok |-> TRUE,
          v |-> Zeros(pl.player_last_input_count)]
    ELSE RetrieveRecords([pl EXCEPT !.player_is_seeking = FALSE],
                         IF pl.player_is_seeking THEN pl.player_position_sec
                         ELSE pl.player_position_sec + pl.since * One,
                         GetRecordsUntil(file, rd, pl.player_position_sec))

\* history: no call yet; played is the wall-clock time that passed while
\* player_playing since the position was last assigned, base that position
NoPlayerHistory ==
    [ev |-> "none", v |-> NoPeaks, played |-> 0, base |-> 0, clock |-> 0, n |-> 0]

PlayerIdle == player = PlayerNew /\ pl_hist = NoPlayerHistory

PL_Untouched ==
    /\ UNCHANGED <<rec_file, rd_hist, entryVars, mergeVars, mapperVars, sharedVars>>
    /\ UNCHANGED <<serverVars, clientVars>>

PL_Play ==
    /\ reader.ok
    /\ ~player.player_playing
    /\ player' = Play(player)
    /\ pl_hist' = [pl_hist EXCEPT !.ev = "play"]
    /\ UNCHANGED reader
    /\ PL_Untouched

PL_Pause ==
    /\ reader.ok
    /\ player.player_playing
    /\ player' = Pause(player)
    /\ pl_hist' = [pl_hist EXCEPT !.ev = "pause"]
    /\ UNCHANGED reader
    /\ PL_Untouched

PL_SetPosition(value) ==
    /\ reader.ok
    /\ pl_hist.ev # "position"
    /\ player' = SetPosition(player, value)
    /\ pl_hist' = IF value = player.player_position_sec
                  THEN [pl_hist EXCEPT !.ev = "position"]
                  ELSE [pl_hist EXCEPT !.ev = "position", !.base = value,
                                       !.played = 0]
    /\ UNCHANGED reader
    /\ PL_Untouched

PL_RetrieveInputs ==
    /\ reader.ok
    /\ pl_hist.n < MaxRetrieves
    /\ \E call \in { RetrieveInputs(rec_file, player, reader) } :
           /\ player' = call.pl
           /\ reader' = call.rd
           /\ pl_hist' = [pl_hist EXCEPT !.ev = "retrieve", !.v = call.v,
                                         !.n = @ + 1]
    /\ PL_Untouched

\* One second of wall-clock time passes
PL_PassTime ==
    /\ reader.ok
    /\ pl_hist.clock < MaxPlayClock
    /\ player' = [player EXCEPT !.since = @ + 1]
    /\ pl_hist' = [pl_hist EXCEPT
                      !.ev = "time",
                      !.clock = @ + 1,
                      !.played = IF player.player_playing THEN @ + One ELSE @]
    /\ UNCHANGED reader
    /\ PL_Untouched

ReaderIdle == rec_file = <<>> /\ reader = NoReader /\ rd_hist = <<>> /\ PlayerIdle

----------------------------------------------------------------------------
\* recording.merge_recordings(output_filename, recording_filenames)

\* reader.recording_start: the timestamp of the second header line
StartOf(file) == Strip(Tail(file[2]))[1].v

\* entry.with_offset(offset)
WithOffset(entry, offset) == [entry EXCEPT !.time_delta = @ + offset]

\* readers.sort(): the places in the input list, in the order of the
\* recording starts; list.sort() is stable
RECURSIVE SortedReaders(_, _)
SortedReaders(files, n) ==
    IF n = 0 THEN <<>>
    ELSE LET before == SortedReaders(files, n - 1)
             later == SelectSeq(before,
                          LAMBDA i : StartOf(files[n]) < StartOf(files[i]))
             sooner == SelectSeq(before,
                          LAMBDA i : ~(StartOf(files[n]) < StartOf(files[i])))
         IN  sooner \o <<n>> \o later

\* No output file, and no call
NotMerged == [called |-> FALSE, made |-> FALSE, raised |-> FALSE,
              lines |-> <<>>, origin |-> <<>>]

\* The first loop of an iteration: every reader without an entry in hand is
\* asked for its next record, which gets the reader's offset
RECURSIVE Fetch(_, _, _, _, _)
Fetch(files, order, rds, reader_entries, index) ==
    IF index > Len(order) THEN [ok |-> TRUE, rds |-> rds, entries |-> reader_entries]
    ELSE IF reader_entries[index] # NoRecord
    THEN Fetch(files, order, rds, reader_entries, index + 1)
    ELSE LET file == files[order[index]]
             next == GetNextRecord(file, rds[index])
             offset == StartOf(file) - StartOf(files[order[1]])
             record == IF next.record = NoRecord THEN NoRecord
                       ELSE Record(next.record.line,
                                   WithOffset(next.record.entry, offset))
         IN  IF ~next.rd.ok
             THEN [ok |-> FALSE, rds |-> rds, entries |-> reader_entries]
             ELSE Fetch(files, order, [rds EXCEPT ![index] = next.rd],
                        [reader_entries EXCEPT ![index] = record], index + 1)

OldestIndex_first_in_hand(reader_entries) ==
    LET held == { i \in 1..Len(reader_entries) : reader_entries[i] # NoRecord }
    IN  IF held = {} THEN 0 ELSE CHOOSE i \in held : \A j \in held : i <= j

OldestIndex_last_of_ties(reader_entries) ==
    LET held == { i \in 1..Len(reader_entries) : reader_entries[i] # NoRecord }
    IN  IF held = {} THEN 0
        ELSE CHOOSE i \in held :
                 \A j \in held :
                     \/ reader_entries[i].entry.time_delta
                            < reader_entries[j].entry.time_delta
                     \/ /\ reader_entries[i].entry.time_delta
                               = reader_entries[j].entry.time_delta
                        /\ i >= j

\* The second loop: the index of the oldest entry in hand, the first of
\* those with the least time_delta; 0 when no reader has an entry
OldestIndex(reader_entries) ==
    LET held == { i \in 1..Len(reader_entries) : reader_entries[i] # NoRecord }
    IN  IF held = {} THEN 0
        ELSE CHOOSE i \in held :
                 \A j \in held :
                     \/ reader_entries[i].entry.time_delta
                            < reader_entries[j].entry.time_delta
                     \/ /\ reader_entries[i].entry.time_delta
                               = reader_entries[j].entry.time_delta
                        /\ i <= j

\* The merge loop, and the footer after it.  out.origin is history: the
\* place in the input list and the line of every entry written.
RECURSIVE MergeLoop(_, _, _, _, _, _)
MergeLoop(files, order, rds, reader_entries, out, ending_time_delta) ==
    LET fetched == Fetch(files, order, rds, reader_entries, 1)
        oldest_index == OldestIndex(fetched.entries)
    IN  IF ~fetched.ok THEN [out EXCEPT !.raised = TRUE]
        ELSE IF oldest_index = 0
        THEN [out EXCEPT !.lines = Append(@,
                 <<FOOTER_TIMESTAMP,
                   Stamp(StartOf(files[order[1]]) + Round(ending_time_delta)),
                   LF>>)]
        ELSE LET oldest == fetched.entries[oldest_index]
                 line == ToRecordStr(oldest.entry)
             IN  IF ~line.ok THEN [out EXCEPT !.raised = TRUE]
                 ELSE MergeLoop(files, order, fetched.rds,
                          [fetched.entries EXCEPT ![oldest_index] = NoRecord],
                          [out EXCEPT !.lines = Append(@, line.v),
                                      !.origin = Append(@,
                                          [input |-> order[oldest_index],
                                           line |-> oldest.line])],
                          oldest.entry.time_delta)

MergeRecordings_output_first(files) ==
    LET order == SortedReaders(files, Len(files))
        opened == [NotMerged EXCEPT !.called = TRUE, !.made = TRUE]
    IN  IF \E i \in 1..Len(files) : ~ReaderNew(files[i]).ok
        THEN [opened EXCEPT !.raised = TRUE]
        ELSE IF files = <<>> THEN [NotMerged EXCEPT !.called = TRUE]
        ELSE MergeLoop(files, order,
                 [i \in 1..Len(files) |-> ReaderNew(files[order[i]])],
                 [i \in 1..Len(files) |-> NoRecord],
                 [opened EXCEPT
                    !.lines = << <<HEADER_VERSION, LF>>,
                                 <<HEADER_TIMESTAMP,
                                   Stamp(StartOf(files[order[1]])), LF>> >>],
                 0 - One)

\* merge_recordings(output_filename, recording_filenames)
MergeRecordings(files) ==
    LET called == [NotMerged EXCEPT !.called = TRUE]
        order == SortedReaders(files, Len(files))
    IN  IF \E i \in 1..Len(files) : ~ReaderNew(files[i]).ok
        THEN [called EXCEPT !.raised = TRUE]
        ELSE IF files = <<>> THEN called
        ELSE MergeLoop(files, order,
                 [i \in 1..Len(files) |-> ReaderNew(files[order[i]])],
                 [i \in 1..Len(files) |-> NoRecord],
                 [called EXCEPT
                    !.made = TRUE,
                    !.lines = << <<HEADER_VERSION, LF>>,
                                 <<HEADER_TIMESTAMP,
                                   Stamp(StartOf(files[order[1]])), LF>> >>],
                 0 - One)

M_MergeRecordings ==
    /\ ~m_out.called
    /\ m_out' = MergeRecordings(m_inputs)
    /\ UNCHANGED <<m_inputs, entryVars, readerVars, mapperVars, sharedVars>>
    /\ UNCHANGED <<serverVars, clientVars>>

MergeIdle == m_inputs = <<>> /\ m_out = NotMerged

----------------------------------------------------------------------------
\* haptics_receive.FeedbackMapper
\*
\* Numbers.  The mapper computes in floats.  The model carries its quantities
\* (value, average, impact, boost, outputs) as integer counts of 10^-4 and
\* rounds every quotient and product to the nearest count; a positive cube
\* stays positive, as it does in floats for every operand the snapping of
\* the average lets through.  An impact of IMPACT_SATURATED stands for every
\* impact from there on: the code compares an impact with 250, with 1 and
\* with 0 only, and multiplies one above 250 by 0.2 * time_ratio to cap the
\* product at 7, which a time_ratio of 1/2 or more exceeds for each of them.
\*
\* Time.  previous_time is the age of self.__previous_time, NoTime for None,
\* in the unit of the rest of the model (1/120 s, half a tick).  time_ratio
\* is the fraction time_delta / MAX_UPDATE_RATE_SECS and is never rounded.
\* The event loop is the sequence of the remaining delays of the handles
\* call_later returned; self.__physics_timer is a position in it, 0 for None.

PhysOne == 10^4
Intensity(x) == x \div (One \div PhysOne)
Abs(x) == IF x < 0 THEN 0 - x ELSE x
RoundDiv(n, d) == (n + d \div 2) \div d

\* a * b for two non-negative quantities
Mul(a, b) ==
    LET ah == a \div PhysOne
        al == a % PhysOne
        bh == b \div PhysOne
        bl == b % PhysOne
    IN  ah * bh * PhysOne + ah * bl + al * bh + RoundDiv(al * bl, PhysOne)

IMPACT_SATURATED == 1000 * PhysOne

\* math.pow(x, 3) for x >= 0
Pow3(x) ==
    IF x >= 10 * PhysOne THEN IMPACT_SATURATED
    ELSE IF x = 0 THEN 0
    ELSE Max(1, Mul(Mul(x, x), x))

\* __init__
MapperNew(haptics_input_ids, haptics_input_ids_override) ==
    [input_ids |-> haptics_input_ids,
     input_ids_override |-> haptics_input_ids_override,
     previous_time |-> NoTime,
     previous_value |-> 0,
     physics_timer |-> 0,
     physics_calc_impact |-> 0,
     physics_calc_impact_boost |-> 0,
     physics_calc_avg_value |-> 0]

NoOutput == [strong |-> NoTime, weak |-> NoTime]

\* The operators below thread ms: the mapper m, the event loop, the outputs
\* out, and the time_delta and avg_value_delta of the last __physics_update

\* The loop without the handle at position i (it ran, or cancel() was called)
Cancelled(loop, i) == SubSeq(loop, 1, i - 1) \o SubSeq(loop, i + 1, Len(loop))

\* apply_outputs(strong_intensity, weak_intensity): each rumble magnitude
\* is int(max(0, min(RUMBLE_MAX * intensity, RUMBLE_MAX)))
ApplyOutputs(ms, strong_intensity, weak_intensity) ==
    [ms EXCEPT !.out = [strong |-> Max(0, Min(strong_intensity, PhysOne)),
                        weak |-> Max(0, Min(weak_intensity, PhysOne))]]

PhysicsInterrupt_timer_kept(ms) == ApplyOutputs(ms, 0, 0)

\* __physics_interrupt()
PhysicsInterrupt(ms) ==
    LET cancelled ==
            IF ms.m.physics_timer # 0
            THEN [ms EXCEPT !.loop = Cancelled(@, ms.m.physics_timer),
                            !.m.physics_timer = 0]
            ELSE ms
    IN  ApplyOutputs(cancelled, 0, 0)

SnapAverage_never(value, avg_value) ==
    [avg_value |-> avg_value, avg_value_delta |-> Abs(value - avg_value)]

\* avg_value_delta, and the average snapped to the value when closer than 0.001
SnapAverage(value, avg_value) ==
    IF Abs(value - avg_value) < PhysOne \div 1000
    THEN [avg_value |-> value, avg_value_delta |-> 0]
    ELSE [avg_value |-> avg_value, avg_value_delta |-> Abs(value - avg_value)]

ArmTimer_unguarded(ms, avg_value_delta) ==
    IF \/ ms.m.physics_calc_impact > 0
       \/ ms.m.physics_calc_impact_boost > 0
       \/ avg_value_delta > 0
    THEN [ms EXCEPT !.loop = Append(@, MAX_UPDATE_RATE_SECS),
                    !.m.physics_timer = Len(ms.loop) + 1]
    ELSE ms

\* The end of __physics_update: schedule another update while not at rest
ArmTimer(ms, avg_value_delta) ==
    IF \/ ms.m.physics_calc_impact > 0
       \/ ms.m.physics_calc_impact_boost > 0
       \/ avg_value_delta > 0
    THEN IF ms.m.physics_timer = 0
         THEN [ms EXCEPT !.loop = Append(@, MAX_UPDATE_RATE_SECS),
                         !.m.physics_timer = Len(ms.loop) + 1]
         ELSE ms
    ELSE ms

\* __physics_update(value)
PhysicsUpdate(ms, value) ==
    LET m == ms.m
        time_delta == IF m.previous_time = NoTime
                      THEN PERSIST_DURATION_SECS * 2
                      ELSE m.previous_time
        \* avg_percent_old = 0.75 + time_ratio, over 4 * MAX_UPDATE_RATE_SECS
        avg_percent_old == 3 * MAX_UPDATE_RATE_SECS + 4 * time_delta
        snapped == SnapAverage(value,
                       RoundDiv(value * avg_percent_old
                                + m.physics_calc_avg_value
                                  * (4 * MAX_UPDATE_RATE_SECS - avg_percent_old),
                                4 * MAX_UPDATE_RATE_SECS))
        avg_value_delta == snapped.avg_value_delta
        value_delta == RoundDiv(Abs(value - m.previous_value) * MAX_UPDATE_RATE_SECS,
                                time_delta)
        impact == Pow3(value_delta + avg_value_delta)
        impact_boost ==
            IF impact > 250 * PhysOne
            THEN Min(7 * PhysOne, (impact \div (5 * MAX_UPDATE_RATE_SECS)) * time_delta)
            ELSE LET b == Max(0, m.physics_calc_impact_boost
                                 - RoundDiv(time_delta * PhysOne,
                                            2 * MAX_UPDATE_RATE_SECS))
                 IN  IF b < PhysOne \div 100 THEN 0 ELSE b
        physics ==
            IF time_delta <= PERSIST_DURATION_SECS
            THEN [m EXCEPT !.physics_calc_avg_value = snapped.avg_value,
                           !.physics_calc_impact =
                               IF impact_boost > 0 THEN Max(PhysOne, impact)
                               ELSE impact,
                           !.physics_calc_impact_boost = impact_boost]
            ELSE [m EXCEPT !.physics_calc_avg_value = snapped.avg_value]
        output_strong == Min(PhysOne, Max(0, physics.physics_calc_impact))
        output_weak == Max(0, value - RoundDiv(output_strong, 2))
        applied == ApplyOutputs([ms EXCEPT !.m = physics,
                                           !.time_delta = time_delta,
                                           !.avg_value_delta = avg_value_delta],
                                output_strong, output_weak)
    IN  ArmTimer([applied EXCEPT !.m.previous_value = value,
                                 !.m.previous_time = 0],
                 avg_value_delta)

\* __physics_timer_cb(), run by the handle at position i of the loop
PhysicsTimerCb(ms, i) ==
    PhysicsUpdate([ms EXCEPT !.loop = Cancelled(@, i), !.m.physics_timer = 0],
                  ms.m.previous_value)

\* value += haptics_inputs[index] over the input ids that are in range
RECURSIVE SumMatching(_, _)
SumMatching(input_ids, haptics_inputs) ==
    IF input_ids = <<>> THEN [value |-> 0, matches |-> 0]
    ELSE LET rest == SumMatching(Tail(input_ids), haptics_inputs)
             index == Head(input_ids)
         IN  IF index < Len(haptics_inputs)
             THEN [value |-> rest.value + Intensity(haptics_inputs[index + 1]),
                   matches |-> rest.matches + 1]
             ELSE rest

\* value = max(value, haptics_inputs[index]) over the override ids in range
RECURSIVE MaxOverride(_, _, _)
MaxOverride(value, input_ids_override, haptics_inputs) ==
    IF input_ids_override = <<>> THEN value
    ELSE LET index == Head(input_ids_override)
         IN  MaxOverride(IF index < Len(haptics_inputs)
                         THEN Max(value, Intensity(haptics_inputs[index + 1]))
                         ELSE value,
                         Tail(input_ids_override), haptics_inputs)

\* The value parse_inputs hands to __physics_update, NoTime when no id matches
InputValue(m, haptics_inputs) ==
    LET summed == SumMatching(m.input_ids, haptics_inputs)
        matches == IF summed.matches > 0 THEN summed.matches
                   ELSE IF \E k \in 1..Len(m.input_ids_override) :
                               m.input_ids_override[k] < Len(haptics_inputs)
                        THEN 1 ELSE 0
    IN  IF matches < 1 THEN NoTime
        ELSE MaxOverride(RoundDiv(summed.value, matches),
                         m.input_ids_override, haptics_inputs)

\* parse_inputs(haptics_inputs); None and [] are both the empty sequence
ParseInputs(ms, haptics_inputs) ==
    IF haptics_inputs = <<>> THEN PhysicsInterrupt(ms)
    ELSE IF InputValue(ms.m, haptics_inputs) = NoTime THEN PhysicsInterrupt(ms)
    ELSE PhysicsUpdate(ms, InputValue(ms.m, haptics_inputs))

NoMapperHistory ==
    [ev |-> "none", handler |-> "none", n |-> 0, since |-> NoTime,
     impulse |-> FALSE, hold |-> 0,
     time_delta |-> NoTime, avg_value_delta |-> 0]

MapperState ==
    [m |-> mapper, loop |-> mp_loop, out |-> mp_out,
     time_delta |-> mp_hist.time_delta,
     avg_value_delta |-> mp_hist.avg_value_delta]

\* history: the updates so far were given the value 1 and then only 0
ImpulseAfter(ms) ==
    \/ ms.m.previous_value = PhysOne
    \/ ms.m.previous_value = 0 /\ mp_hist.impulse

\* history: the number of updates in a row that were given the value 0 one
\* tick after the update before them
HoldAfter(ms) ==
    IF ms.m.previous_value = 0 /\ ms.time_delta = MAX_UPDATE_RATE_SECS
       /\ mp_hist.handler \in {"update", "timer"}
    THEN Min(mp_hist.hold + 1, DecayTicks)
    ELSE 0

MapperRuns(ms, handler, n) ==
    /\ mapper' = ms.m
    /\ mp_loop' = ms.loop
    /\ mp_out' = ms.out
    /\ mp_hist' = [ev |-> handler, handler |-> handler, n |-> n,
                   since |-> IF handler = "timer" THEN mp_hist.since ELSE 0,
                   impulse |-> handler \in {"update", "timer"} /\ ImpulseAfter(ms),
                   hold |-> IF handler \in {"update", "timer"}
                            THEN HoldAfter(ms) ELSE 0,
                   time_delta |-> ms.time_delta,
                   avg_value_delta |-> ms.avg_value_delta]

\* on_haptics_updated_cb hands a vector, or None, to the mapper.  An input
\* arrives within MaxInputDelay of the one before it, or once no timer is
\* pending.  Handlers run half a tick apart or more: an input arrives after
\* the handle that is due has run, and not at the time of the last update.
MP_ParseInputs(haptics_inputs) ==
    /\ mp_hist.n < MaxMapperInputs
    /\ mapper.previous_time # 0
    /\ \A i \in 1..Len(mp_loop) : mp_loop[i] > 0
    /\ \/ mp_hist.since = NoTime
       \/ mp_hist.since <= MaxInputDelay
       \/ mp_loop = <<>>
    /\ MapperRuns(ParseInputs(MapperState, haptics_inputs),
                  IF haptics_inputs = <<>> THEN "absent"
                  ELSE IF InputValue(mapper, haptics_inputs) = NoTime THEN "nomatch"
                  ELSE "update",
                  mp_hist.n + 1)
    /\ UNCHANGED <<entryVars, readerVars, mergeVars, sharedVars>>
    /\ UNCHANGED <<serverVars, clientVars>>

\* The event loop runs a handle that is due
MP_PhysicsTimerCb ==
    /\ mapper.previous_time # 0
    /\ \E i \in 1..Len(mp_loop) :
          /\ mp_loop[i] = 0
          /\ MapperRuns(PhysicsTimerCb(MapperState, i), "timer", mp_hist.n)
    /\ UNCHANGED <<entryVars, readerVars, mergeVars, sharedVars>>
    /\ UNCHANGED <<serverVars, clientVars>>

\* Half a tick passes; with no timer pending, at most MaxMapperAge of them
MP_PassTime ==
    /\ mapper.previous_time # NoTime
    /\ \A i \in 1..Len(mp_loop) : mp_loop[i] > 0
    /\ mp_loop # <<>> \/ mapper.previous_time < MaxMapperAge
    /\ mapper' = [mapper EXCEPT !.previous_time = @ + 1]
    /\ mp_loop' = [i \in 1..Len(mp_loop) |-> mp_loop[i] - 1]
    /\ mp_hist' = [mp_hist EXCEPT !.ev = "time",
                                  !.since = Min(@ + 1, MaxInputDelay + 1)]
    /\ UNCHANGED mp_out
    /\ UNCHANGED <<entryVars, readerVars, mergeVars, sharedVars>>
    /\ UNCHANGED <<serverVars, clientVars>>

\* With no timer pending, time passes until MAPPER_PAUSE (16 s) after the
\* last update
MAPPER_PAUSE == PERSIST_DURATION_SECS + 60 * MAX_UPDATE_RATE_SECS

MP_Pause ==
    /\ mapper.previous_time # NoTime
    /\ mapper.previous_time < MAPPER_PAUSE
    /\ mp_loop = <<>>
    /\ Abs(mapper.physics_calc_avg_value) <= MaxAverage * PhysOne
    /\ mapper' = [mapper EXCEPT !.previous_time = MAPPER_PAUSE]
    /\ mp_hist' = [mp_hist EXCEPT !.ev = "time", !.since = MaxInputDelay + 1]
    /\ UNCHANGED <<mp_loop, mp_out>>
    /\ UNCHANGED <<entryVars, readerVars, mergeVars, sharedVars>>
    /\ UNCHANGED <<serverVars, clientVars>>

MapperIdle ==
    /\ mapper = MapperNew(<<0>>, <<>>)
    /\ mp_loop = <<>>
    /\ mp_out = NoOutput
    /\ mp_hist = NoMapperHistory

\* No connection was accepted yet.  Per connection: state is "new", "open",
\* "closing" or "lost"; history: type is the session type it set last, rec
\* the writer that was opened for its live session (0 for none), ends the
\* times on_session_end_cb was called for it
NoConnections ==
    [k \in 1..MaxConnections |->
        [state |-> "new", type |-> UNKNOWN, rec |-> 0, ends |-> 0]]

\* HapticServerProtocol.__init__: no transport (0), no txh answered, no
\* delayed task
ProtocolNew ==
    [transport |-> 0, previous_cmd_txh_time |-> NoTime, timers |-> <<>>]

\* A transport before its connection: open, nothing written.  History: n
\* counts the txh commands it delivered, orphans are the ACKs that were
\* pending when it was closed, each named by connection and command
NoTransport == [closing |-> FALSE, wire |-> <<>>, n |-> 0, orphans |-> {}]

PacedIdle ==
    /\ pc_proto = [p \in 1..MaxConnections |-> ProtocolNew]
    /\ pc_wire = [t \in 1..MaxConnections |-> NoTransport]
    /\ pc_ev = [ev |-> "none", conn |-> 0, orphan |-> FALSE]

SharedIdle == sh_conns = NoConnections /\ sh_log = <<>> /\ PacedIdle

ToolIdle == EntryIdle /\ ReaderIdle /\ MergeIdle /\ MapperIdle /\ SharedIdle

----------------------------------------------------------------------------
\* haptics_receive.ReceiverManager: recording of live sessions.  A state is
\* [r |-> the manager's fields, w |-> the writers constructed]

\* recording_end()
RecordingEnd(st) ==
    IF st.r.recorder = 0 THEN st
    ELSE [r |-> [st.r EXCEPT !.recorder = 0],
          w |-> [st.w EXCEPT ![st.r.recorder] = CloseWriter(@)]]

RecordingStart_keeps_open(st) ==
    IF ~st.r.recording_enabled THEN st
    ELSE [r |-> [st.r EXCEPT !.recorder = Len(st.w) + 1],
          w |-> Append(st.w, WriterNew)]

\* recording_start(peername)
RecordingStart(st) ==
    IF ~st.r.recording_enabled THEN st
    ELSE LET ended == RecordingEnd(st)
         IN  [r |-> [ended.r EXCEPT !.recorder = Len(ended.w) + 1],
              w |-> Append(ended.w, WriterNew)]

HapticsUpdatedCb_not_recorded(st, haptics_entries) == st

\* on_haptics_updated_cb(haptics_entries), the recording part
HapticsUpdatedCb(st, haptics_entries) ==
    IF st.r.recording_enabled /\ st.r.recorder # 0
    THEN [st EXCEPT !.w[st.r.recorder] = AppendRecord(@, haptics_entries)]
    ELSE st

ReceiverCb_records_playback(st, e) ==
    CASE e.cb = "session_new" -> RecordingEnd(st)
      [] e.cb = "session_end" -> RecordingEnd(st)
      [] e.cb = "session_type_set" ->
            IF e.st # UNKNOWN THEN RecordingStart(st) ELSE RecordingEnd(st)
      [] e.cb = "haptics_updated" -> HapticsUpdatedCb(st, e.v)

\* on_session_new_cb, on_session_end_cb, on_session_type_set_cb and
\* on_haptics_updated_cb, by the entry the server logs for the call;
\* on_session_end_cb ends with on_haptics_updated_cb(None), which finds no
\* recorder
ReceiverCb(st, e) ==
    CASE e.cb = "session_new" -> RecordingEnd(st)
      [] e.cb = "session_end" -> RecordingEnd(st)
      [] e.cb = "session_type_set" ->
            IF e.st = LIVE THEN RecordingStart(st) ELSE RecordingEnd(st)
      [] e.cb = "haptics_updated" -> HapticsUpdatedCb(st, e.v)

RECURSIVE ReceiverCbs(_, _)
ReceiverCbs(st, es) ==
    IF es = <<>> THEN st ELSE ReceiverCbs(ReceiverCb(st, Head(es)), Tail(es))

\* The callbacks a server handler made in this step reach the manager
ReceiverRuns ==
    LET st == ReceiverCbs([r |-> receiver, w |-> writers],
                          SubSeq(s_cb', Len(s_cb) + 1, Len(s_cb')))
    IN  receiver' = st.r /\ writers' = st.w

----------------------------------------------------------------------------
\* HapticServerProtocol

\* The callbacks the server was constructed with, as log entries
OnSessionNew == [cb |-> "session_new", st |-> UNKNOWN, v |-> <<>>]
OnSessionEnd == [cb |-> "session_end", st |-> UNKNOWN, v |-> <<>>]
OnSessionTypeSet(t) == [cb |-> "session_type_set", st |-> t, v |-> <<>>]
OnHapticsUpdated(vec) == [cb |-> "haptics_updated", st |-> UNKNOWN, v |-> vec]

\* transport.write(): asyncio drops what is written to a closed transport
TransportWrite(wire, closing, entry) ==
    IF closing THEN wire ELSE Append(wire, entry)

\* __send(message): nothing is written once self.__transport is None
Send(wire, transport, closing, message, cause) ==
    IF transport = "none" THEN wire
    ELSE TransportWrite(wire, closing, [msg |-> Framed(message), cause |-> cause])

\* The if/elif chain of data_received on the stripped message
CommandOf(message) ==
    IF message = CMD_HELP THEN "help"
    ELSE IF message = CMD_VERSION THEN "ver"
    ELSE IF message = CMD_QUIT \/ message = EOT THEN "quit"
    ELSE IF StartsWith(message, CMD_SESSION_TYPE_PREFIX) THEN "session_type"
    ELSE IF StartsWith(message, CMD_TRANSMIT_HAPTICS_PREFIX) THEN "txh"
    ELSE "other"

KeepAlive_always(cmd) == TRUE

\* keep_alive: False for quit and for a single EOT byte
KeepAlive(cmd) == cmd # "quit"

\* session_type_raw = message[len(prefix):] and its comparison
SessionTypeOf(message) ==
    LET session_type_raw == Tail(message)
    IN  IF session_type_raw = SESSION_TYPE_LIVE THEN LIVE
        ELSE IF session_type_raw = SESSION_TYPE_PLAYBACK THEN PLAYBACK
        ELSE UNKNOWN

\* parts = message[len(prefix):]; float(i) for i in parts.split(",")
HapticsParses(message) ==
    LET parts == Split(Tail(message))
    IN  \A i \in 1..Len(parts) : FloatOk(parts[i])

haptics_intensities(message) ==
    LET parts == Split(Tail(message))
    IN  [i \in 1..Len(parts) |-> Capped(Float(parts[i]))]

\* time_delta: MAX_UPDATE_RATE_SECS with no previous txh, else now - previous
TimeDelta(prev_age) ==
    IF prev_age = NoTime THEN MAX_UPDATE_RATE_SECS ELSE prev_age

TxhCallbacks_paced_dropped(cb, vec, time_delta) ==
    IF time_delta < MAX_UPDATE_RATE_SECS THEN cb ELSE Append(cb, OnHapticsUpdated(vec))

\* The txh branch invokes the callback before it looks at the clock
TxhCallbacks(cb, vec, time_delta) == Append(cb, OnHapticsUpdated(vec))

Age(a) == IF a = NoTime THEN NoTime ELSE Min(a + 1, SrvAgeCap)

\* The values of a txh payload up to the first one float() rejects
RECURSIVE ValidPrefix(_)
ValidPrefix(parts) ==
    IF parts = <<>> \/ ~FloatOk(Head(parts)) THEN <<>>
    ELSE <<Capped(Float(Head(parts)))>> \o ValidPrefix(Tail(parts))

TxhRaised_prefix_dispatched(cb, message) ==
    Append(cb, OnHapticsUpdated(ValidPrefix(Split(Tail(message)))))

\* float(i) raises inside the list comprehension: the except clause is
\* reached before the callback and before the clock is looked at
TxhRaised(cb, message) == cb

\* connection_made(transport)
S_ConnectionMade ==
    /\ s_transport = "none" /\ ~s_lost /\ ~s_closing
    /\ s_prev_age' = NoTime
    /\ s_transport' = "set"
    /\ s_cb' = s_cb \o <<OnSessionNew, OnSessionTypeSet(UNKNOWN)>>
    /\ ReceiverRuns
    /\ UNCHANGED <<s_closing, s_lost, s_timers, s_wire, s_rx, s_ack_age, s_ack_gap>>
    /\ UNCHANGED <<clientVars, toolVars>>

\* data_received(data)
S_DataReceived(data) ==
    /\ s_transport = "set" /\ ~s_closing
    /\ Len(s_rx) < MaxReads
    /\ LET message == Strip(data)
           cmd == CommandOf(message)
           n == Len(s_rx) + 1
           reply(m) == Send(s_wire, s_transport, s_closing, m, n)
       IN  /\ s_rx' = Append(s_rx, data)
           /\ CASE cmd = "help" ->
                    /\ s_wire' = reply(help_msg)
                    /\ UNCHANGED <<s_cb, s_closing, s_prev_age, s_timers,
                                   s_ack_age, s_ack_gap>>
                [] cmd = "ver" ->
                    /\ s_wire' = reply(VERSION)
                    /\ UNCHANGED <<s_cb, s_closing, s_prev_age, s_timers,
                                   s_ack_age, s_ack_gap>>
                [] cmd = "quit" ->
                    \* reply; if not keep_alive: on_session_end_cb, close()
                    /\ s_wire' = reply(REPLY_GOOD)
                    /\ s_cb' = IF KeepAlive(cmd) THEN s_cb
                                ELSE Append(s_cb, OnSessionEnd)
                    /\ s_closing' = ~KeepAlive(cmd)
                    /\ UNCHANGED <<s_prev_age, s_timers, s_ack_age, s_ack_gap>>
                [] cmd = "session_type" ->
                    LET session_type == SessionTypeOf(message)
                    IN  /\ IF session_type # UNKNOWN
                           THEN /\ s_cb' = Append(s_cb, OnSessionTypeSet(session_type))
                                /\ s_wire' = reply(REPLY_GOOD)
                           ELSE /\ s_cb' = s_cb
                                /\ s_wire' = reply(REPLY_INVALID)
                        /\ UNCHANGED <<s_closing, s_prev_age, s_timers,
                                       s_ack_age, s_ack_gap>>
                [] cmd = "txh" /\ HapticsParses(message) ->
                    LET time_delta == TimeDelta(s_prev_age)
                    IN  /\ s_cb' = TxhCallbacks(s_cb, haptics_intensities(message),
                                                time_delta)
                        /\ IF time_delta < MAX_UPDATE_RATE_SECS
                           THEN \* ensure_future(__send_txh_reply_delayed(...))
                                /\ Len(s_timers) < MaxPending
                                /\ s_timers' = Append(s_timers,
                                       [left |-> MAX_UPDATE_RATE_SECS - time_delta,
                                        cause |-> n])
                                /\ UNCHANGED <<s_wire, s_prev_age, s_ack_age, s_ack_gap>>
                           ELSE \* send immediately
                                /\ s_wire' = reply(REPLY_GOOD)
                                /\ s_prev_age' = 0
                                /\ s_ack_gap' = s_ack_age
                                /\ s_ack_age' = 0
                                /\ UNCHANGED s_timers
                        /\ UNCHANGED s_closing
                [] cmd = "txh" /\ ~HapticsParses(message) ->
                    \* ValueError: reply, then raise if PROTOCOL_CRASH_ON_ERROR;
                    \* asyncio closes the transport of a handler that raised
                    /\ s_cb' = TxhRaised(s_cb, message)
                    /\ s_wire' = reply(REPLY_INVALID)
                    /\ s_closing' = PROTOCOL_CRASH_ON_ERROR
                    /\ UNCHANGED <<s_prev_age, s_timers, s_ack_age, s_ack_gap>>
                [] OTHER ->
                    /\ s_wire' = reply(REPLY_INVALID \o <<CRLF>> \o help_msg)
                    /\ UNCHANGED <<s_cb, s_closing, s_prev_age, s_timers,
                                   s_ack_age, s_ack_gap>>
    /\ ReceiverRuns
    /\ UNCHANGED <<s_transport, s_lost>>
    /\ UNCHANGED <<clientVars, toolVars>>

RemoveAt(s, i) == SubSeq(s, 1, i - 1) \o SubSeq(s, i + 1, Len(s))

\* __send_txh_reply_delayed(delay), after its sleep
S_SendTxhReplyDelayed(i) ==
    /\ i \in 1..Len(s_timers)
    /\ s_timers[i].left = 0
    /\ s_timers' = RemoveAt(s_timers, i)
    /\ s_wire' = Send(s_wire, s_transport, s_closing, REPLY_GOOD, s_timers[i].cause)
    /\ s_prev_age' = 0
    /\ IF s_wire' # s_wire
       THEN s_ack_gap' = s_ack_age /\ s_ack_age' = 0
       ELSE UNCHANGED <<s_ack_age, s_ack_gap>>
    /\ UNCHANGED <<s_transport, s_closing, s_lost, s_cb, s_rx, receiver, writers>>
    /\ UNCHANGED <<clientVars, toolVars>>

\* connection_lost(exc): after close(), after a fatal error, or the peer left
S_ConnectionLost ==
    /\ s_transport = "set"
    /\ s_cb' = Append(s_cb, OnSessionEnd)
    /\ s_prev_age' = NoTime
    /\ s_transport' = "none"
    /\ s_closing' = TRUE
    /\ s_lost' = TRUE
    /\ ReceiverRuns
    /\ UNCHANGED <<s_timers, s_wire, s_rx, s_ack_age, s_ack_gap>>
    /\ UNCHANGED <<clientVars, toolVars>>

\* One time unit passes on the server
S_Tick ==
    /\ \A i \in 1..Len(s_timers) : s_timers[i].left > 0
    /\ \A i \in 1..Len(writers) :
           writers[i].flush # 0 /\ writers[i].now < MaxSessionAge
    /\ writers' = [i \in 1..Len(writers) |-> WriterAge(writers[i], 1)]
    /\ s_timers' = [i \in 1..Len(s_timers) |->
                       [s_timers[i] EXCEPT !.left = @ - 1]]
    /\ s_prev_age' = Age(s_prev_age)
    /\ s_ack_age' = Age(s_ack_age)
    /\ UNCHANGED <<s_transport, s_closing, s_lost, s_wire, s_cb, s_rx, s_ack_gap,
                   receiver>>
    /\ UNCHANGED <<clientVars, toolVars>>

\* What a client can put into one read
VecA == <<5000000, 9000000>>
VecB == <<15000000, 1234567>>
VecC == <<0 - 2000000>>
Line(message) == Framed(message)
TxhLine(vec) == Line(<<CMD_TRANSMIT_HAPTICS_PREFIX>> \o Join(vec))
Reads ==
    { Line(CMD_HELP), Line(CMD_VERSION), Line(CMD_QUIT), EOT,
      Line(<<CMD_SESSION_TYPE_PREFIX>> \o SESSION_TYPE_LIVE),
      Line(<<CMD_SESSION_TYPE_PREFIX>> \o SESSION_TYPE_PLAYBACK),
      Line(<<CMD_SESSION_TYPE_PREFIX, Tok("bogus")>>),
      TxhLine(VecA), TxhLine(VecB),
      Line(<<CMD_TRANSMIT_HAPTICS_PREFIX, Tok("bogus")>>),
      Line(<<Tok("bogus")>>),
      \* two commands in one read
      TxhLine(VecA) \o TxhLine(VecB),
      \* one command in two reads
      <<CMD_TRANSMIT_HAPTICS_PREFIX, Num(VecA[1])>>,
      <<COMMA, Num(VecA[2]), CRLF>> }

\* ServerProtocol.__init__: no transport, no timers, nothing received
NoConnection ==
    /\ s_transport = "none" /\ s_closing = FALSE /\ s_lost = FALSE
    /\ s_prev_age = NoTime /\ s_timers = <<>> /\ s_wire = <<>>
    /\ s_cb = <<>> /\ s_rx = <<>> /\ s_ack_age = NoTime /\ s_ack_gap = NoTime

\* The server before a connection, no recording opened
ServerInit ==
    /\ NoConnection
    /\ writers = <<>>

\* ReceiverManager.__init__ and load_config: no recorder; recording is
\* enabled or not by the configuration file
ReceiverInit ==
    \E enabled \in BOOLEAN :
        receiver = [recording_enabled |-> enabled, recorder |-> 0]

\* HapticClientProtocol.__init__; time_earliest is older than any interval
ClientInit(session_type) ==
    /\ c_state = "CONNECTING" /\ c_session_type = session_type
    /\ c_closing = FALSE
    /\ c_last = <<>> /\ c_dup_age = DupAgeCap /\ c_timers = <<>>
    /\ c_out = <<>> /\ c_hs = <<>> /\ c_ev = "init" /\ c_pull = "none"
    /\ c_steady = FALSE /\ c_unacked = 0 /\ c_gap = NoTime

ClientIdle == ClientInit(LIVE)

\* reset_config(): recording disabled
ReceiverIdle == receiver = [recording_enabled |-> FALSE, recorder |-> 0]

InitServer == ServerInit /\ ReceiverInit /\ ClientIdle /\ ToolIdle

NextServer ==
    \/ S_ConnectionMade
    \/ \E data \in Reads : S_DataReceived(data)
    \/ \E i \in 1..MaxPending : S_SendTxhReplyDelayed(i)
    \/ S_ConnectionLost
    \/ S_Tick

SpecServer == InitServer /\ [][NextServer]_vars

----------------------------------------------------------------------------
\* HapticClientProtocol

IsTxh(message) == StartsWith(message, CMD_TRANSMIT_HAPTICS_PREFIX)

RECURSIVE TxhCount(_)
TxhCount(out) ==
    IF out = <<>> THEN 0
    ELSE (IF IsTxh(Head(out).msg) THEN 1 ELSE 0) + TxhCount(Tail(out))

\* __send(message): transport.write without a look at the state; `open`
\* records whether the transport still wrote it
ClientSend(out, closing, message) ==
    Append(out, [msg |-> message, open |-> ~closing])

ShouldSend_never_refresh(capped, last, age) == capped # last

ShouldSend_after_persist(capped, last, age) ==
    capped # last \/ age > PERSIST_DURATION_SECS

\* capped_intensities != last or (time_now - duped) > DUPLICATE_INTERVAL
ShouldSend(capped, last, age) ==
    capped # last \/ age > PROTOCOL_SEND_DUPLICATE_INTERVAL_SECS

ReplyExpected_no_ack_check(state, message) ==
    state = "VERSION_CHECK" => message = VERSION

\* The reply each state of data_received accepts
ReplyExpected(state, message) ==
    \/ state = "VERSION_CHECK" /\ message = VERSION
    \/ state = "SESSION_TYPE_SET" /\ message = REPLY_GOOD
    \/ state = "ACTIVE" /\ message = REPLY_GOOD

EnsureDelayed_twice(timers) ==
    timers \o <<MAX_UPDATE_RATE_SECS, MAX_UPDATE_RATE_SECS>>

\* asyncio.ensure_future(self.__send_haptics_data_delayed()): one more task
\* that sleeps MAX_UPDATE_RATE_SECS and calls __send_haptics_data
EnsureDelayed(timers) == Append(timers, MAX_UPDATE_RATE_SECS)

\* __send_haptics_data() when on_haptics_request_cb returns h; `timers` are
\* the delayed tasks pending and `unacked` the txh unanswered when it is called
SendHapticsData(h, timers, unacked) ==
    IF h # <<>>
    THEN LET capped_intensities == CappedAll(h)
         IN  IF ShouldSend(capped_intensities, c_last, c_dup_age)
             THEN /\ TxhCount(c_out) < MaxTxh
                  /\ c_out' = ClientSend(c_out, c_closing,
                                  <<CMD_TRANSMIT_HAPTICS_PREFIX>>
                                      \o Join(capped_intensities))
                  /\ c_gap' = c_dup_age
                  /\ c_pull' = IF capped_intensities = c_last THEN "refresh"
                               ELSE "new"
                  /\ c_dup_age' = 0
                  /\ c_last' = capped_intensities
                  /\ c_steady' = TRUE
                  /\ c_unacked' = unacked + 1
                  /\ c_timers' = timers
             ELSE \* re-check after a delay
                  /\ Len(timers) < MaxPending
                  /\ c_timers' = EnsureDelayed(timers)
                  /\ c_pull' = "suppressed"
                  /\ c_gap' = NoTime
                  /\ c_unacked' = unacked
                  /\ UNCHANGED <<c_out, c_last, c_dup_age, c_steady>>
    ELSE \* nothing to send: re-check after a delay
         /\ Len(timers) < MaxPending
         /\ c_timers' = EnsureDelayed(timers)
         /\ c_pull' = "empty"
         /\ c_steady' = FALSE
         /\ c_gap' = NoTime
         /\ c_unacked' = unacked
         /\ UNCHANGED <<c_out, c_last, c_dup_age>>

\* __disconnect_with_error(error_msg)
DisconnectWithError ==
    /\ c_state' = "ERROR"
    /\ c_out' = ClientSend(c_out, c_closing, CMD_QUIT)
    /\ c_closing' = TRUE
    /\ c_pull' = "none"
    /\ c_gap' = NoTime
    /\ UNCHANGED <<c_last, c_dup_age, c_timers, c_steady, c_unacked>>

\* connection_made(transport)
C_ConnectionMade ==
    /\ c_state = "CONNECTING"
    /\ c_state' = "VERSION_CHECK"
    /\ c_out' = ClientSend(c_out, c_closing, CMD_VERSION)
    /\ c_ev' = "connection_made"
    /\ c_pull' = "none"
    /\ c_gap' = NoTime
    /\ UNCHANGED <<c_session_type, c_closing, c_last, c_dup_age, c_timers,
                   c_hs, c_steady, c_unacked>>
    /\ UNCHANGED <<serverVars, toolVars>>

\* data_received(data), the source returning h if it is pulled
C_DataReceived(data, h) ==
    /\ c_state \notin {"CONNECTING", "DISCONNECTED"} /\ ~c_closing
    /\ c_ev' = "data_received"
    /\ c_hs' = IF c_state \in {"VERSION_CHECK", "SESSION_TYPE_SET"}
               THEN Append(c_hs, data) ELSE c_hs
    /\ LET message == Strip(data)
       IN  CASE c_state = "VERSION_CHECK" /\ ReplyExpected(c_state, message) ->
                    IF c_session_type \in {LIVE, PLAYBACK}
                    THEN /\ c_state' = "SESSION_TYPE_SET"
                         /\ c_out' = ClientSend(c_out, c_closing,
                                <<CMD_SESSION_TYPE_PREFIX>> \o
                                (IF c_session_type = LIVE THEN SESSION_TYPE_LIVE
                                 ELSE SESSION_TYPE_PLAYBACK))
                         /\ c_pull' = "none"
                         /\ c_gap' = NoTime
                         /\ UNCHANGED <<c_closing, c_last, c_dup_age, c_timers,
                                        c_steady, c_unacked>>
                    ELSE DisconnectWithError
             [] c_state = "SESSION_TYPE_SET" /\ ReplyExpected(c_state, message) ->
                    /\ c_state' = "ACTIVE"
                    /\ SendHapticsData(h, c_timers, c_unacked)
                    /\ UNCHANGED c_closing
             [] c_state = "ACTIVE" /\ ReplyExpected(c_state, message) ->
                    /\ SendHapticsData(h, c_timers, Max(c_unacked - 1, 0))
                    /\ UNCHANGED <<c_state, c_closing>>
             [] OTHER -> DisconnectWithError
    /\ UNCHANGED c_session_type
    /\ UNCHANGED <<serverVars, toolVars>>

\* __send_haptics_data_delayed(), after its sleep
C_SendHapticsDataDelayed(i, h) ==
    /\ i \in 1..Len(c_timers)
    /\ c_timers[i] = 0
    /\ c_ev' = "delayed"
    /\ SendHapticsData(h, RemoveAt(c_timers, i), c_unacked)
    /\ UNCHANGED <<c_state, c_session_type, c_closing, c_hs>>
    /\ UNCHANGED <<serverVars, toolVars>>

\* connection_lost(exc): after close(), or the server closed the connection
C_ConnectionLost ==
    /\ c_state \notin {"CONNECTING", "DISCONNECTED"}
    /\ c_state' = "DISCONNECTED"
    /\ c_closing' = TRUE
    /\ c_ev' = "connection_lost"
    /\ c_pull' = "none"
    /\ c_gap' = NoTime
    /\ UNCHANGED <<c_session_type, c_last, c_dup_age, c_timers, c_out, c_hs,
                   c_steady, c_unacked>>
    /\ UNCHANGED <<serverVars, toolVars>>

\* One time unit passes on the client; the model follows time up to `horizon`
\* after a transmission
C_Tick(horizon) ==
    /\ c_dup_age = DupAgeCap \/ c_dup_age < horizon
    /\ \A i \in 1..Len(c_timers) : c_timers[i] > 0
    /\ c_timers' = [i \in 1..Len(c_timers) |-> c_timers[i] - 1]
    /\ c_dup_age' = Min(c_dup_age + 1, DupAgeCap)
    /\ c_ev' = "tick"
    /\ c_pull' = "none"
    /\ c_gap' = NoTime
    /\ UNCHANGED <<c_state, c_session_type, c_closing, c_last, c_out, c_hs,
                   c_steady, c_unacked>>
    /\ UNCHANGED <<serverVars, toolVars>>

\* What on_haptics_request_cb can return (<<>> for None or an empty list)
Sources == { <<>>, VecA, VecC }

\* What a server can put into one read
Replies ==
    { Line(VERSION), Line(<<Tok("RemoteHaptics:0.2")>>),
      Line(REPLY_GOOD), Line(REPLY_INVALID),
      \* two replies in one read
      Line(REPLY_GOOD) \o Line(REPLY_GOOD) }

InitClient ==
    /\ ServerInit /\ ReceiverIdle /\ ToolIdle
    /\ \E session_type \in {UNKNOWN, LIVE, PLAYBACK} : ClientInit(session_type)

NextClient ==
    \/ C_ConnectionMade
    \/ \E data \in Replies, h \in Sources : C_DataReceived(data, h)
    \/ \E i \in 1..MaxPending, h \in Sources : C_SendHapticsDataDelayed(i, h)
    \/ C_ConnectionLost
    \/ C_Tick(MaxQuiet)

SpecClient == InitClient /\ [][NextClient]_vars

\* The client with a static source and a server that answers every request
\* with the reply the client expects, after any delay
VecA2 == <<VecA[1], VecA[2] + 3>>
SteadySources == { VecA, VecA2, VecC }
SteadyPull(h) == c_last # <<>> => CappedAll(h) = c_last
AwaitsReply ==
    \/ c_state \in {"VERSION_CHECK", "SESSION_TYPE_SET"}
    \/ c_state = "ACTIVE" /\ c_unacked > 0
ServerReply == IF c_state = "VERSION_CHECK" THEN Line(VERSION) ELSE Line(REPLY_GOOD)

InitClientSteady ==
    /\ ServerInit /\ ReceiverIdle /\ ToolIdle
    /\ \E session_type \in {LIVE, PLAYBACK} : ClientInit(session_type)

NextClientSteady ==
    \/ C_ConnectionMade
    \/ \E h \in SteadySources :
           AwaitsReply /\ SteadyPull(h) /\ C_DataReceived(ServerReply, h)
    \/ \E i \in 1..MaxPending, h \in SteadySources :
           SteadyPull(h) /\ C_SendHapticsDataDelayed(i, h)
    \/ C_Tick(DupAgeCap)

SpecClientSteady == InitClientSteady /\ [][NextClientSteady]_vars

\* The client with any source and a server that answers the version
\* request, the session type and every txh with the reply the client
\* expects, once, after any delay
NextClientAcked ==
    \/ C_ConnectionMade
    \/ \E h \in Sources : AwaitsReply /\ C_DataReceived(ServerReply, h)
    \/ \E i \in 1..MaxPending, h \in Sources : C_SendHapticsDataDelayed(i, h)
    \/ C_ConnectionLost
    \/ C_Tick(MaxQuiet)

SpecClientAcked == InitClientSteady /\ [][NextClientAcked]_vars

----------------------------------------------------------------------------
\* The client connected to the server and its receiver: what one side writes
\* is what the other side reads, one message per read and in order.  Time
\* stands still, so the specification follows a connection up to its first
\* paced ACK.

VecD == <<4, 5, 15>>
VecE == <<9999995, 9999996>>
\* What on_haptics_request_cb returns: below 0, above 1, more than 6 decimals
LinkSources == { VecA, VecB, VecC, VecD, VecE }

\* The replies the client has read: one per command up to ACTIVE, then one
\* per txh that is no longer unanswered
RepliesTaken ==
    CASE c_state = "VERSION_CHECK" -> 0
      [] c_state = "SESSION_TYPE_SET" -> 1
      [] c_state = "ACTIVE" -> 2 + TxhCount(c_out) - c_unacked
      [] OTHER -> Len(s_wire)

\* The server reads the next message the client wrote
LinkToServer ==
    /\ Len(s_rx) < Len(c_out)
    /\ c_out[Len(s_rx) + 1].open
    /\ S_DataReceived(Framed(c_out[Len(s_rx) + 1].msg))

\* The client reads the next reply the server wrote
LinkToClient(h) ==
    /\ RepliesTaken < Len(s_wire)
    /\ C_DataReceived(s_wire[RepliesTaken + 1].msg, h)

InitLink ==
    /\ ServerInit /\ ReceiverInit /\ ToolIdle
    /\ \E session_type \in {LIVE, PLAYBACK} : ClientInit(session_type)

NextLink ==
    \/ C_ConnectionMade
    \/ S_ConnectionMade
    \/ LinkToServer
    \/ \E h \in LinkSources : LinkToClient(h)

SpecLink == InitLink /\ [][NextLink]_vars

----------------------------------------------------------------------------
\* Properties of the server

\* The vectors handed to the haptics-updated callback, in order
RECURSIVE HapticsOf(_)
HapticsOf(cb) ==
    IF cb = <<>> THEN <<>>
    ELSE (IF Head(cb).cb = "haptics_updated" THEN <<Head(cb).v>> ELSE <<>>)
         \o HapticsOf(Tail(cb))

\* The grammar of a txh command: the prefix, then numbers separated by commas
IsNumberList(s) ==
    /\ Len(s) % 2 = 1
    /\ \A i \in 1..Len(s) : IF i % 2 = 1 THEN s[i].k = "num" ELSE s[i] = COMMA
WellFormedTxh(data) ==
    LET m == Strip(data)
    IN  StartsWith(m, CMD_TRANSMIT_HAPTICS_PREFIX) /\ IsNumberList(Tail(m))
TxhValues(data) ==
    LET m == Tail(Strip(data))
    IN  [i \in 1..((Len(m) + 1) \div 2) |-> Capped(m[2 * i - 1].v)]

RECURSIVE ExpectedHaptics(_)
ExpectedHaptics(rx) ==
    IF rx = <<>> THEN <<>>
    ELSE (IF WellFormedTxh(Head(rx)) THEN <<TxhValues(Head(rx))>> ELSE <<>>)
         \o ExpectedHaptics(Tail(rx))

IsQuit(data) == data = Line(CMD_QUIT) \/ data = EOT

\* C1 (as claimed): two successive txh ACKs written on a connection are at
\* least MAX_UPDATE_RATE_SECS (1/60 s) apart, also for a client that sends
\* the next txh before the previous ACK was written.
C1_AcksPaced ==
    s_ack_gap = NoTime \/ s_ack_gap >= MAX_UPDATE_RATE_SECS

\* C7: the haptics-updated callback has been invoked once for every
\* well-formed txh read received so far, with its clamped and rounded
\* values, in arrival order, whether or not the ACK of that txh is still
\* pending; no other step invokes it.
C7_EveryTxhDispatched ==
    HapticsOf(s_cb) = ExpectedHaptics(s_rx)

\* C7 witness: two vectors were dispatched while the ACK of one is pending.
C7_Witness ==
    /\ Len(HapticsOf(s_cb)) = 2
    /\ s_timers # <<>>
    /\ ~s_closing

\* C8 (as claimed): the replies on the wire are in the order in which the
\* commands that caused them were received.
C8_RepliesInOrder ==
    \A i, j \in 1..Len(s_wire) : i < j => s_wire[i].cause <= s_wire[j].cause

\* The complete (CRLF-terminated) lines of a byte stream
RECURSIVE LinesOf(_)
LinesOf(s) ==
    IF \A i \in 1..Len(s) : s[i] # CRLF THEN <<>>
    ELSE LET i == CHOOSE j \in 1..Len(s) :
                      s[j] = CRLF /\ \A h \in 1..(j - 1) : s[h] # CRLF
         IN  <<SubSeq(s, 1, i)>> \o LinesOf(SubSeq(s, i + 1, Len(s)))

RECURSIVE Stream(_)
Stream(rx) == IF rx = <<>> THEN <<>> ELSE Head(rx) \o Stream(Tail(rx))

\* The vectors dispatched when every line arrives in a read of its own,
\* up to the line that closes the connection
RECURSIVE LineByLine(_)
LineByLine(lines) ==
    IF lines = <<>> THEN <<>>
    ELSE LET cmd == CommandOf(Strip(Head(lines)))
         IN  IF cmd = "quit" THEN <<>>
             ELSE IF cmd = "txh" /\ ~WellFormedTxh(Head(lines)) THEN <<>>
             ELSE (IF cmd = "txh" THEN <<TxhValues(Head(lines))>> ELSE <<>>)
                  \o LineByLine(Tail(lines))

\* C9 (as claimed): the server has dispatched exactly the vectors of the
\* complete lines it received, as if each line had come in a read of its own.
C9_LinesHandledOnce ==
    HapticsOf(s_cb) = LineByLine(LinesOf(Stream(s_rx)))

\* C10: once quit or EOT was received, it is the last read processed, the
\* transport is closed, and the last thing on the wire is the ACK of that
\* command: a paced ACK still pending is not written.
C10_QuitIsLast ==
    \A q \in 1..Len(s_rx) :
        IsQuit(s_rx[q]) =>
            /\ q = Len(s_rx)
            /\ s_closing
            /\ s_wire # <<>>
            /\ s_wire[Len(s_wire)] = [msg |-> Framed(REPLY_GOOD), cause |-> q]

\* C10 witness: quit arrived while the ACK of a txh was pending; the delayed
\* task has run since, and the ACK was not written.
C10_Witness ==
    /\ Len(s_rx) = 3
    /\ WellFormedTxh(s_rx[1]) /\ WellFormedTxh(s_rx[2]) /\ IsQuit(s_rx[3])
    /\ s_timers = <<>>
    /\ Len(s_wire) = 2

\* A read whose command has a payload the server rejects
MalformedPayload(data) ==
    LET m == Strip(data)
        cmd == CommandOf(m)
    IN  \/ cmd = "session_type" /\ SessionTypeOf(m) = UNKNOWN
        \/ cmd = "txh" /\ ~HapticsParses(m)

\* C11 (as claimed): a read with a malformed session_type or txh payload is
\* the last read the connection processes, and the transport is closed by it.
C11_MalformedIsFatal ==
    \A q \in 1..Len(s_rx) :
        MalformedPayload(s_rx[q]) => q = Len(s_rx) /\ s_closing

\* The inputs lines of a recording file, and the payload of one
IsInputsLine(line) ==
    /\ Len(line) >= 3 /\ line[1].k = "num" /\ line[2] = COLON
    /\ line[Len(line)] = LF
PayloadOf(line) == SubSeq(line, 3, Len(line) - 1)
RECURSIVE InputsPayloads(_)
InputsPayloads(lines) ==
    IF lines = <<>> THEN <<>>
    ELSE (IF IsInputsLine(Head(lines)) THEN <<PayloadOf(Head(lines))>> ELSE <<>>)
         \o InputsPayloads(Tail(lines))

LiveTxhSession ==
    /\ receiver.recording_enabled
    /\ s_rx = << Line(<<CMD_SESSION_TYPE_PREFIX>> \o SESSION_TYPE_LIVE),
                 TxhLine(VecA) >>

\* C12: on a fresh connection with recording enabled, once session_type:live
\* and then txh:0.5,0.9 were received, the wire holds ACK, ACK in the order of
\* the two commands, the haptics-updated callback ran once with [0.5, 0.9],
\* and the one recording opened holds one inputs line with payload 0.5,0.9.
C12_LiveTxhRecorded ==
    LiveTxhSession =>
        /\ s_wire = << [msg |-> Framed(REPLY_GOOD), cause |-> 1],
                       [msg |-> Framed(REPLY_GOOD), cause |-> 2] >>
        /\ HapticsOf(s_cb) = <<VecA>>
        /\ Len(writers) = 1
        /\ InputsPayloads(writers[1].lines) = << Join(VecA) >>

\* C12 witness: the two commands were received with recording enabled, and
\* the recording is still open.
C12_Witness ==
    LiveTxhSession /\ receiver.recorder = 1 /\ ~writers[1].closed

\* A read that sets a session type the server accepts
ValidSessionType(data) ==
    LET m == Strip(data)
    IN  CommandOf(m) = "session_type" /\ SessionTypeOf(m) # UNKNOWN

\* The vectors of the txh commands among the reads that were received while
\* the most recent valid session_type command was live
RECURSIVE LiveVectors(_, _)
LiveVectors(rx, type) ==
    IF rx = <<>> THEN <<>>
    ELSE IF ValidSessionType(Head(rx))
         THEN LiveVectors(Tail(rx), SessionTypeOf(Strip(Head(rx))))
    ELSE (IF WellFormedTxh(Head(rx)) /\ type = LIVE
          THEN <<TxhValues(Head(rx))>> ELSE <<>>)
         \o LiveVectors(Tail(rx), type)

\* What the writers were handed and what they wrote, over all recordings
RECURSIVE AllCalls(_)
AllCalls(ws) ==
    IF ws = <<>> THEN <<>> ELSE Head(ws).calls \o AllCalls(Tail(ws))
RECURSIVE AllPayloads(_)
AllPayloads(ws) ==
    IF ws = <<>> THEN <<>>
    ELSE InputsPayloads(Head(ws).lines) \o AllPayloads(Tail(ws))
JoinAll(vs) == [i \in 1..Len(vs) |-> Join(vs[i])]

\* A sequence without the elements that repeat their predecessor
RECURSIVE Dedupe(_)
Dedupe(vs) ==
    IF Len(vs) <= 1 THEN vs
    ELSE LET front == Dedupe(SubSeq(vs, 1, Len(vs) - 1))
         IN  IF vs[Len(vs)] = vs[Len(vs) - 1] THEN front
             ELSE Append(front, vs[Len(vs)])

\* C14 (as claimed): with recording enabled, the inputs lines of the
\* recordings are exactly the vectors received while the most recent valid
\* session_type command of the connection was live, one line per vector.
C14_AppendedIffLive ==
    receiver.recording_enabled =>
        AllPayloads(writers) = JoinAll(LiveVectors(s_rx, UNKNOWN))

\* C14 (amended): with recording enabled, the vectors handed to a recording
\* writer are exactly the vectors received while the most recent valid
\* session_type command was live, and a writer writes a line for each vector
\* it is handed except for one that repeats the vector before it.
C14_HandedIffLive ==
    receiver.recording_enabled =>
        /\ AllCalls(writers) = LiveVectors(s_rx, UNKNOWN)
        /\ \A i \in 1..Len(writers) :
               InputsPayloads(writers[i].lines) = JoinAll(Dedupe(writers[i].calls))

\* C14 witness: a live session received the same vector twice; the writer
\* was handed both and wrote one line.
C14_Witness ==
    /\ receiver.recording_enabled
    /\ Len(writers) = 1
    /\ writers[1].calls = <<VecA, VecA>>
    /\ InputsPayloads(writers[1].lines) = << Join(VecA) >>

----------------------------------------------------------------------------
\* Properties of the client

IsSessionTypeCmd(message) == StartsWith(message, CMD_SESSION_TYPE_PREFIX)
ConfiguredSessionTypeCmd ==
    <<CMD_SESSION_TYPE_PREFIX>> \o
    (IF c_session_type = LIVE THEN SESSION_TYPE_LIVE ELSE SESSION_TYPE_PLAYBACK)
GoodHandshake == <<Line(VERSION), Line(REPLY_GOOD)>>
BadHandshake ==
    \/ Len(c_hs) >= 1 /\ c_hs[1] # GoodHandshake[1]
    \/ Len(c_hs) >= 2 /\ c_hs[2] # GoodHandshake[2]
    \/ Len(c_hs) >= 1 /\ c_session_type \notin {LIVE, PLAYBACK}

\* The txh commands passed to __send, in order
RECURSIVE TxhOf(_)
TxhOf(out) ==
    IF out = <<>> THEN <<>>
    ELSE (IF IsTxh(Head(out).msg) THEN <<Head(out).msg>> ELSE <<>>)
         \o TxhOf(Tail(out))

\* C2: with a static source, a pull that finds the vector unchanged sends
\* nothing while at most PROTOCOL_SEND_DUPLICATE_INTERVAL_SECS (14.25 s) have
\* passed since the last txh, so the txh that opened the window is the only
\* one in it; a pull after the window has elapsed sends a refresh, and the
\* refresh carries the values of the txh before it.
C2_DuplicateSuppression ==
    c_state = "ACTIVE" =>
        /\ c_pull = "suppressed" =>
               c_dup_age <= PROTOCOL_SEND_DUPLICATE_INTERVAL_SECS
        /\ c_pull = "refresh" =>
               /\ c_gap > PROTOCOL_SEND_DUPLICATE_INTERVAL_SECS
               /\ LET t == TxhOf(c_out) IN t[Len(t)] = t[Len(t) - 1]
        /\ c_pull # "new" \/ Len(TxhOf(c_out)) = 1

\* C2 witness: a refresh was sent after a whole window of suppressed pulls.
C2_Witness ==
    /\ c_state = "ACTIVE"
    /\ c_pull = "refresh"
    /\ c_ev = "delayed"

\* C3 (as claimed): with a static source and a server that acknowledges
\* every txh, a txh follows the txh before it in less than
\* PERSIST_DURATION_SECS (15 s).
C3_GapBelowPersist ==
    (c_state = "ACTIVE" /\ c_pull = "refresh") => c_gap < PERSIST_DURATION_SECS

\* C3 (amended): a refresh sent by the delayed re-check, which is the one
\* that runs when the ACK arrived inside the suppression window, follows the
\* txh before it by at most the window plus one re-check period, which is
\* less than 15 s; any later refresh is sent on the arrival of an ACK.
C3_RefreshByRecheck ==
    (c_state = "ACTIVE" /\ c_pull = "refresh") =>
        /\ PROTOCOL_SEND_DUPLICATE_INTERVAL_SECS + MAX_UPDATE_RATE_SECS
               < PERSIST_DURATION_SECS
        /\ \/ /\ c_ev = "delayed"
              /\ c_gap <= PROTOCOL_SEND_DUPLICATE_INTERVAL_SECS
                              + MAX_UPDATE_RATE_SECS
           \/ /\ c_ev = "data_received"
              /\ c_gap > PROTOCOL_SEND_DUPLICATE_INTERVAL_SECS

\* C3 witness: a refresh sent by the re-check, inside the persistence window.
C3_Witness ==
    /\ c_state = "ACTIVE" /\ c_pull = "refresh" /\ c_ev = "delayed"
    /\ c_gap > PROTOCOL_SEND_DUPLICATE_INTERVAL_SECS
    /\ c_gap < PERSIST_DURATION_SECS

\* C4: ver is the first message; session_type:<configured mode> is the
\* second and is sent only once the version string was received; the client
\* is ACTIVE, and a txh is sent, only after VERSION and then ACK were
\* received; any other reply at either step, or a configured type that is
\* neither LIVE nor PLAYBACK, leaves the client in ERROR with the transport
\* closed and no txh sent.
C4_Handshake ==
    /\ c_state # "CONNECTING" => c_out # <<>> /\ c_out[1].msg = CMD_VERSION
    /\ \A i \in 1..Len(c_out) :
           IsSessionTypeCmd(c_out[i].msg) =>
               /\ i = 2
               /\ c_hs # <<>> /\ c_hs[1] = GoodHandshake[1]
               /\ c_session_type \in {LIVE, PLAYBACK}
               /\ c_out[i].msg = ConfiguredSessionTypeCmd
    /\ \A i \in 1..Len(c_out) :
           IsTxh(c_out[i].msg) =>
               /\ i >= 3
               /\ IsSessionTypeCmd(c_out[2].msg)
               /\ c_hs = GoodHandshake
    /\ c_state = "ACTIVE" => c_hs = GoodHandshake
    /\ BadHandshake =>
           /\ c_state \in {"ERROR", "DISCONNECTED"}
           /\ c_ev = "data_received" => c_state = "ERROR"
           /\ c_closing
           /\ TxhCount(c_out) = 0

\* C4 witness: a playback client sent its first txh after the handshake.
C4_Witness ==
    /\ c_session_type = PLAYBACK
    /\ c_state = "ACTIVE"
    /\ TxhCount(c_out) = 1
    /\ c_out[Len(c_out)].open

\* C5 (as claimed): once the client has answered an unexpected reply with
\* quit, it is in ERROR (or beyond), the transport is closed, and no txh is
\* passed to __send after the quit.
C5_NoTxhAfterError ==
    \A i \in 1..Len(c_out) :
        c_out[i].msg = CMD_QUIT =>
            /\ c_state \in {"ERROR", "DISCONNECTED"}
            /\ c_closing
            /\ \A j \in (i + 1)..Len(c_out) : ~IsTxh(c_out[j].msg)

\* The forward path of ConnectionState
Forward(a, b) ==
    \/ a = "CONNECTING" /\ b = "VERSION_CHECK"
    \/ a = "VERSION_CHECK" /\ b = "SESSION_TYPE_SET"
    \/ a = "SESSION_TYPE_SET" /\ b = "ACTIVE"

\* C6 (as claimed): ERROR and DISCONNECTED are never left, and every other
\* change of state is one step forward on CONNECTING, VERSION_CHECK,
\* SESSION_TYPE_SET, ACTIVE or a step into a terminal state.
C6_TerminalStates ==
    [][ \/ c_state' = c_state
        \/ /\ c_state \notin {"ERROR", "DISCONNECTED"}
           /\ \/ Forward(c_state, c_state')
              \/ c_state' \in {"ERROR", "DISCONNECTED"} ]_vars

\* C15 (as claimed): while the client is in ERROR or DISCONNECTED no delayed
\* re-check is scheduled, none has just run and polled the source, and
\* no txh was passed to the closed transport.
C15_LoopUnwinds ==
    c_state \in {"ERROR", "DISCONNECTED"} =>
        /\ c_timers = <<>>
        /\ c_ev # "delayed"
        /\ \A i \in 1..Len(c_out) : IsTxh(c_out[i].msg) => c_out[i].open

----------------------------------------------------------------------------
\* Properties of the client connected to the server

\* The numbers of a piece of text, in order
RECURSIVE NumbersOf(_)
NumbersOf(text) ==
    IF text = <<>> THEN <<>>
    ELSE (IF Head(text).k = "num" THEN <<Head(text).v>> ELSE <<>>)
         \o NumbersOf(Tail(text))

\* In [0, 1] with at most PROTOCOL_HAPTICS_PRECISION decimals
Clamped(vec) ==
    \A i \in 1..Len(vec) : vec[i] >= 0 /\ vec[i] <= One /\ vec[i] % Ulp = 0

\* C13: every intensity in a txh the client sent, in a vector handed to the
\* haptics-updated callback and in an inputs line of a recording lies in
\* [0, 1] and has at most 6 decimals, and the vectors the server dispatched
\* are the vectors of the txh commands it read, unchanged by its own
\* clamp/round step.
C13_ClampedEverywhere ==
    /\ \A i \in 1..Len(c_out) :
           IsTxh(c_out[i].msg) => Clamped(NumbersOf(Tail(c_out[i].msg)))
    /\ \A i \in 1..Len(s_cb) :
           s_cb[i].cb = "haptics_updated" => Clamped(s_cb[i].v)
    /\ \A i \in 1..Len(writers) : \A j \in 1..Len(writers[i].lines) :
           IsInputsLine(writers[i].lines[j])
               => Clamped(NumbersOf(PayloadOf(writers[i].lines[j])))
    /\ \A i \in 1..Len(HapticsOf(s_cb)) :
           /\ i <= Len(TxhOf(c_out))
           /\ HapticsOf(s_cb)[i] = NumbersOf(Tail(TxhOf(c_out)[i]))

\* C13 witness: the source returned [1.5, 0.1234567]; the vector was sent,
\* dispatched and recorded as [1, 0.123457].
C13_Witness ==
    /\ CappedAll(VecB) # VecB
    /\ HapticsOf(s_cb) = << CappedAll(VecB) >>
    /\ Len(writers) = 1
    /\ InputsPayloads(writers[1].lines) = << Join(CappedAll(VecB)) >>

----------------------------------------------------------------------------
\* The entries of a recording: serialised, then parsed

ServerIdle ==
    /\ ServerInit /\ ReceiverIdle /\ ClientIdle

InitEntry ==
    /\ ServerIdle /\ ReaderIdle /\ MergeIdle /\ MapperIdle /\ SharedIdle
    /\ e_entry \in Entries
    /\ e_str = NotCalled /\ e_back = NotCalled

NextEntry ==
    \/ E_ToRecordStr
    \/ E_GetEntryFromLine

SpecEntry == InitEntry /\ [][NextEntry]_vars

\* The fields of an entry, time_delta and offset at the recording's precision
Rounded(e) == [e EXCEPT !.time_delta = Round(@), !.offset = Round(@)]

\* C16: for every entry variant, with the default media id and with another,
\* to_record_str returns a line and get_entry_from_line returns from it an
\* entry of the same variant with equal fields (time_delta and floats within
\* 6 decimals)
C16_RoundTrip ==
    /\ e_str.called => e_str.ok
    /\ e_back.called => /\ e_back.ok
                        /\ Rounded(e_back.v) = Rounded(e_entry)

----------------------------------------------------------------------------
\* One recording.HapticsWriter, called at any time

\* The payloads handed to append_record
WriterPayloads == { <<>>, <<5000000>>, <<0, One>> }

\* The time between two calls: the flush interval, or so much that one flush
\* interval more reaches RECORDING_DUPLICATE_INTERVAL_SECS
WriterSteps == { RECORDING_FLUSH_INTERVAL_SECS,
                 RECORDING_DUPLICATE_INTERVAL_SECS - RECORDING_FLUSH_INTERVAL_SECS }

\* The history of a writer keeps its last call only
LastCall(w, call) == [w EXCEPT !.calls = call]

\* writer.append_record(haptics_entries)
W_AppendRecord ==
    /\ Len(writers[1].lines) < MaxLines
    /\ \E haptics_entries \in WriterPayloads :
           writers' = << LastCall(AppendRecord(writers[1], haptics_entries),
                                  <<haptics_entries>>) >>
    /\ UNCHANGED <<s_transport, s_closing, s_lost, s_prev_age, s_timers, s_wire,
                   s_rx, s_cb, s_ack_age, s_ack_gap, receiver>>
    /\ UNCHANGED <<clientVars, toolVars>>

\* writer.close()
W_Close ==
    /\ writers' = << LastCall(CloseWriter(writers[1]), <<>>) >>
    /\ UNCHANGED <<s_transport, s_closing, s_lost, s_prev_age, s_timers, s_wire,
                   s_rx, s_cb, s_ack_age, s_ack_gap, receiver>>
    /\ UNCHANGED <<clientVars, toolVars>>

\* The flush timer of the writer fires
W_FlushFileTimerCb ==
    /\ writers[1].flush = 0
    /\ writers' = << LastCall(FlushFileTimerCb(writers[1]), <<>>) >>
    /\ UNCHANGED <<s_transport, s_closing, s_lost, s_prev_age, s_timers, s_wire,
                   s_rx, s_cb, s_ack_age, s_ack_gap, receiver>>
    /\ UNCHANGED <<clientVars, toolVars>>

\* Time passes without a call; a timer that is due runs first, and nothing
\* depends on time once the file is closed and the timer is gone
W_PassTime ==
    /\ writers[1].flush # 0
    /\ ~(writers[1].closed /\ writers[1].flush = NoTime)
    /\ \E d \in WriterSteps :
           /\ writers[1].now + d <= MaxWriterAge
           /\ writers' = << LastCall(PassTime(writers[1], d), <<>>) >>
    /\ UNCHANGED <<s_transport, s_closing, s_lost, s_prev_age, s_timers, s_wire,
                   s_rx, s_cb, s_ack_age, s_ack_gap, receiver>>
    /\ UNCHANGED <<clientVars, toolVars>>

\* HapticsWriter(filename)
InitWriter ==
    /\ NoConnection /\ ReceiverIdle /\ ClientIdle /\ ToolIdle
    /\ writers = <<WriterNew>>

NextWriter ==
    \/ W_AppendRecord
    \/ W_Close
    \/ W_FlushFileTimerCb
    \/ W_PassTime

SpecWriter == InitWriter /\ [][NextWriter]_vars


----------------------------------------------------------------------------
\* One recording.HapticsReader on a recording file, asked for records

\* The entry lines of the recordings: inputs, a media command of the default
\* id and one of the id "player1", as the format writes them
EntryLines(t) ==
    { <<Num(t), COLON>> \o Join(<<5000000, One>>) \o <<LF>>,
      <<Num(t), COLON, LINE_MEDIA, MEDIA_CMD_STOP, LF>>,
      <<Num(t), COLON, LINE_MEDIA, AT, Tok("player1"), COLON, Num(0 - 54321000),
        COLON, Tok("/path/to/music.mp3"), LF>> }

\* The times of the entries and of the requests, in seconds
EntryTimes == { 0, 2 * One, 7 * One }
RequestTimes == { 2 * One, 5 * One, 9 * One }

\* The sequences of at most n entry lines with times that do not decrease
RECURSIVE EntryLineSeqs(_)
EntryLineSeqs(n) ==
    IF n = 0 THEN { <<>> }
    ELSE LET shorter == EntryLineSeqs(n - 1)
         IN  shorter \cup
             { Append(ls, l) : ls \in { x \in shorter : Len(x) = n - 1 },
                               l \in UNION { EntryLines(t) : t \in EntryTimes } }

NonDecreasing(ls) ==
    \A i \in 1..(Len(ls) - 1) : ls[i][1].v <= ls[i + 1][1].v

\* The recordings: header, a timestamp comment, entries, and the footer
\* unless the writer was not closed
Recordings ==
    { << <<HEADER_VERSION, LF>>, <<HEADER_TIMESTAMP, Stamp(0), LF>>,
         <<TIMESTAMP_COMMENT, Stamp(0), LF>> >> \o ls \o footer :
          ls \in { x \in EntryLineSeqs(MaxEntries) : NonDecreasing(x) },
          footer \in { <<>>, << <<FOOTER_TIMESTAMP, Stamp(0), LF>> >> } }

\* Header lines that are not a recording's: another version marker in the
\* first line, or a second line that is not the session start
GoodHeader == << <<HEADER_VERSION, LF>>, <<HEADER_TIMESTAMP, Stamp(0), LF>> >>
BadHeaders ==
    { << <<Tok("RemoteHapticsRecording:9.9"), LF>>, GoodHeader[2] >>,
      << GoodHeader[1], <<Tok("@session_begin:"), Stamp(0), LF>> >> }
HeaderOf(file) == SubSeq(file, 1, Min(2, Len(file)))
WithHeader(file, header) == header \o SubSeq(file, 3, Len(file))
BadRecordings ==
    { WithHeader(file, header) : file \in Recordings, header \in BadHeaders }

\* reader = HapticsReader(filename, on_playback_finished); there is no
\* reader when __init__ raised
InitReader ==
    /\ ServerIdle /\ EntryIdle /\ MergeIdle /\ MapperIdle /\ SharedIdle
    /\ rec_file \in Recordings \cup BadRecordings
    /\ PlayerIdle
    /\ reader = IF ReaderNew(rec_file).ok THEN ReaderNew(rec_file) ELSE NoReader
    /\ rd_hist = <<>>

\* reader.get_records_until(time_delta); the history keeps the request and
\* the list returned
R_GetRecordsUntil ==
    /\ reader.pos > 0
    /\ Len(rd_hist) < MaxCalls
    /\ \E time_delta \in RequestTimes :
           LET call == GetRecordsUntil(rec_file, reader, time_delta)
           IN  /\ reader' = call.rd
               /\ rd_hist' = Append(rd_hist, [time_delta |-> time_delta,
                                              restart |-> time_delta < reader.prev_time_delta,
                                              header |-> HeaderOf(rec_file),
                                              ok |-> call.rd.ok,
                                              records |-> call.records])
    /\ UNCHANGED <<entryVars, rec_file, playVars, mergeVars, mapperVars, sharedVars>>
    /\ UNCHANGED <<serverVars, clientVars>>

NextReader == R_GetRecordsUntil

SpecReader == InitReader /\ [][NextReader]_vars

\* The header lines of the file are overwritten while the reader has it
\* open, as when a file of the same name is started; the entry lines stay
R_HeaderOverwritten ==
    /\ reader.pos > 0 /\ rd_hist # <<>>
    /\ \E header \in {GoodHeader} \cup BadHeaders :
           /\ header # HeaderOf(rec_file)
           /\ rec_file' = WithHeader(rec_file, header)
    /\ UNCHANGED <<entryVars, reader, rd_hist, playVars, mergeVars, mapperVars,
                   sharedVars>>
    /\ UNCHANGED <<serverVars, clientVars>>

NextRewritten ==
    \/ R_GetRecordsUntil
    \/ R_HeaderOverwritten

SpecRewritten == InitReader /\ [][NextRewritten]_vars

\* SpecPlayback: a FeedbackMapperPlayback on a recording of inputs of two
\* lengths and a remark; play, pause, seeks and retrieve_inputs in any order
\* while time passes
PlaybackRecordings ==
    { << <<HEADER_VERSION, LF>>, <<HEADER_TIMESTAMP, Stamp(0), LF>> >> \o ls
         \o << <<FOOTER_TIMESTAMP, Stamp(7 * One), LF>> >> :
      ls \in { << <<Num(0), COLON>> \o Join(<<5000000, One>>) \o <<LF>>,
                  <<Num(One), COLON>> \o Join(<<One, 0>>) \o <<LF>>,
                  <<Num(2 * One), COLON>> \o Join(<<2500000>>) \o <<LF>> >>,
               << <<Num(One), COLON, LINE_REMARK, Tok("a remark"), LF>>,
                  <<Num(2 * One), COLON>> \o Join(<<5000000, One>>) \o <<LF>> >> } }
SeekPositions == { 0, 2 * One }

InitPlayback ==
    /\ ServerIdle /\ EntryIdle /\ MergeIdle /\ MapperIdle /\ SharedIdle
    /\ rec_file \in PlaybackRecordings
    /\ reader = ReaderNew(rec_file)
    /\ rd_hist = <<>>
    /\ PlayerIdle

NextPlayback ==
    \/ PL_Play
    \/ PL_Pause
    \/ \E value \in SeekPositions : PL_SetPosition(value)
    \/ PL_RetrieveInputs
    \/ PL_PassTime

SpecPlayback == InitPlayback /\ [][NextPlayback]_vars


----------------------------------------------------------------------------
\* merge_recordings on recordings that HapticsWriter or a person wrote

\* The entry lines of the input recordings: inputs at 0 s and 2 s, and a
\* media play command at 2 s
MergeLines ==
    { <<Num(0), COLON>> \o Join(<<5000000>>) \o <<LF>>,
      <<Num(2 * One), COLON>> \o Join(<<0, One>>) \o <<LF>>,
      <<Num(2 * One), COLON, LINE_MEDIA, Num(0 - 54321000), COLON,
        Tok("/path/to/media.mp4"), LF>> }
MergeStarts == { 0, 2 * One }

RECURSIVE MergeLineSeqs(_)
MergeLineSeqs(n) ==
    IF n = 0 THEN { <<>> }
    ELSE LET shorter == MergeLineSeqs(n - 1)
         IN  shorter \cup
             { Append(ls, l) : ls \in { x \in shorter : Len(x) = n - 1 },
                               l \in MergeLines }

\* The input recordings: closed files with entries that do not decrease
MergeFiles ==
    { << <<HEADER_VERSION, LF>>, <<HEADER_TIMESTAMP, Stamp(start), LF>> >>
          \o ls \o << <<FOOTER_TIMESTAMP, Stamp(start + 7 * One), LF>> >> :
      start \in MergeStarts,
      ls \in { x \in MergeLineSeqs(MaxMergeEntries) : NonDecreasing(x) } }

RECURSIVE FileLists(_)
FileLists(n) ==
    IF n = 0 THEN { <<>> }
    ELSE LET shorter == FileLists(n - 1)
         IN  shorter \cup
             { Append(fs, f) : fs \in { x \in shorter : Len(x) = n - 1 },
                               f \in MergeFiles }

InitMerge ==
    /\ ServerIdle /\ EntryIdle /\ ReaderIdle /\ MapperIdle /\ SharedIdle
    /\ m_inputs \in FileLists(MaxRecordings)
    /\ m_out = NotMerged

NextMerge == M_MergeRecordings

SpecMerge == InitMerge /\ [][NextMerge]_vars

----------------------------------------------------------------------------
\* SpecMergeCorrupt: merge_recordings is given a list of recordings of which
\* one is not a recording file

\* What a file that is not a recording begins with: nothing at all, entry
\* lines, another version marker, the version marker alone, a second line
\* that is not the session start, a session start that is not a timestamp
CorruptHeaders ==
    { <<>>,
      << <<Tok("RemoteHapticsRecording:9.9"), LF>>,
         <<HEADER_TIMESTAMP, Stamp(0), LF>> >>,
      << <<HEADER_VERSION, LF>> >>,
      << <<HEADER_VERSION, LF>>, <<Tok("@session_begin:"), Stamp(0), LF>> >>,
      << <<HEADER_VERSION, LF>>, <<HEADER_TIMESTAMP, Tok("bogus"), LF>> >> }
CorruptBodies ==
    { <<>>,
      << <<Num(0), COLON>> \o Join(<<5000000>>) \o <<LF>>,
         <<FOOTER_TIMESTAMP, Stamp(7 * One), LF>> >> }
CorruptFiles ==
    { header \o body : header \in CorruptHeaders, body \in CorruptBodies }

\* A list with the file put in at place k
PutIn(fs, k, f) == SubSeq(fs, 1, k - 1) \o <<f>> \o SubSeq(fs, k, Len(fs))

CorruptLists ==
    { PutIn(fs[1], fs[2], f) :
          fs \in { x \in FileLists(MaxRecordings - 1) \X (1..MaxRecordings) :
                       x[2] <= Len(x[1]) + 1 },
          f \in CorruptFiles }

InitMergeCorrupt ==
    /\ ServerIdle /\ EntryIdle /\ ReaderIdle /\ MapperIdle /\ SharedIdle
    /\ m_inputs \in CorruptLists
    /\ m_out = NotMerged

SpecMergeCorrupt == InitMergeCorrupt /\ [][NextMerge]_vars

----------------------------------------------------------------------------
\* SpecMapper: one FeedbackMapper, fed vectors and absent inputs at any time

MapperConfigs == {<<<<0>>, <<>>>>, <<<<1>>, <<0>>>>}
MapperInputs == {<<>>, <<0>>, <<One>>, <<One \div 2, 0>>}

InitMapper ==
    /\ ServerIdle /\ EntryIdle /\ ReaderIdle /\ MergeIdle /\ SharedIdle
    /\ \E c \in MapperConfigs : mapper = MapperNew(c[1], c[2])
    /\ mp_loop = <<>>
    /\ mp_out = NoOutput
    /\ mp_hist = NoMapperHistory

NextMapper ==
    \/ \E haptics_inputs \in MapperInputs : MP_ParseInputs(haptics_inputs)
    \/ MP_PhysicsTimerCb
    \/ MP_PassTime
    \/ MP_Pause

SpecMapper == InitMapper /\ [][NextMapper]_vars

----------------------------------------------------------------------------
\* SpecShared: the server of start_server accepts several connections.  Each
\* has a HapticServerProtocol of its own, and all of them were constructed
\* with the callbacks of the one ReceiverManager.  A step is one handler of
\* one connection, by the callbacks it makes; a rec of NoTime in conn stands
\* for the recorder the manager has after them.

SharedRuns(k, conn, callbacks, logged) ==
    LET st == ReceiverCbs([r |-> receiver, w |-> writers], callbacks)
    IN  /\ receiver' = st.r
        /\ writers' = st.w
        /\ sh_conns' = [sh_conns EXCEPT ![k] =
                           [conn EXCEPT !.rec = IF conn.rec = NoTime
                                                THEN st.r.recorder ELSE @]]
        /\ sh_log' = sh_log \o logged

\* connection_made: on_session_new_cb, then on_session_type_set_cb(UNKNOWN)
SH_ConnectionMade(k) ==
    /\ sh_conns[k].state = "new"
    /\ SharedRuns(k, [state |-> "open", type |-> UNKNOWN, rec |-> 0, ends |-> 0],
                  <<OnSessionNew, OnSessionTypeSet(UNKNOWN)>>, <<>>)
    /\ UNCHANGED <<s_transport, s_closing, s_lost, s_prev_age, s_timers, s_wire,
                   s_cb, s_rx, s_ack_age, s_ack_gap>>
    /\ UNCHANGED <<clientVars, entryVars, readerVars, mergeVars, mapperVars,
                   pacedVars>>

\* data_received of a session_type command with a valid type
SH_SessionType(k, session_type) ==
    /\ sh_conns[k].state = "open"
    /\ session_type = LIVE => Len(writers) < MaxSharedWriters
    /\ SharedRuns(k, [state |-> "open", type |-> session_type,
                      rec |-> IF session_type = LIVE THEN NoTime ELSE 0,
                      ends |-> 0],
                  <<OnSessionTypeSet(session_type)>>, <<>>)
    /\ UNCHANGED <<s_transport, s_closing, s_lost, s_prev_age, s_timers, s_wire,
                   s_cb, s_rx, s_ack_age, s_ack_gap>>
    /\ UNCHANGED <<clientVars, entryVars, readerVars, mergeVars, mapperVars,
                   pacedVars>>

\* data_received of a well-formed txh command
SH_Haptics(k, haptics_intensities_1) ==
    /\ sh_conns[k].state = "open"
    /\ Len(sh_log) < MaxSharedVectors
    /\ SharedRuns(k, sh_conns[k], <<OnHapticsUpdated(haptics_intensities_1)>>,
                  << [conn |-> k, type |-> sh_conns[k].type,
                      rec |-> sh_conns[k].rec,
                      v |-> haptics_intensities_1,
                      handed |-> IF receiver.recording_enabled
                                 THEN receiver.recorder ELSE 0] >>)
    /\ UNCHANGED <<s_transport, s_closing, s_lost, s_prev_age, s_timers, s_wire,
                   s_cb, s_rx, s_ack_age, s_ack_gap>>
    /\ UNCHANGED <<clientVars, entryVars, readerVars, mergeVars, mapperVars,
                   pacedVars>>

\* data_received of quit or EOT: on_session_end_cb, then transport.close();
\* no further data is delivered, connection_lost follows
SH_Quit(k) ==
    /\ sh_conns[k].state = "open"
    /\ SharedRuns(k, [sh_conns[k] EXCEPT !.state = "closing", !.ends = @ + 1],
                  <<OnSessionEnd>>, <<>>)
    /\ UNCHANGED <<s_transport, s_closing, s_lost, s_prev_age, s_timers, s_wire,
                   s_cb, s_rx, s_ack_age, s_ack_gap>>
    /\ UNCHANGED <<clientVars, entryVars, readerVars, mergeVars, mapperVars,
                   pacedVars>>

\* connection_lost: on_session_end_cb, also after the one of quit
SH_ConnectionLost(k) ==
    /\ sh_conns[k].state \in {"open", "closing"}
    /\ SharedRuns(k, [state |-> "lost", type |-> UNKNOWN, rec |-> 0,
                      ends |-> sh_conns[k].ends + 1],
                  <<OnSessionEnd>>, <<>>)
    /\ UNCHANGED <<s_transport, s_closing, s_lost, s_prev_age, s_timers, s_wire,
                   s_cb, s_rx, s_ack_age, s_ack_gap>>
    /\ UNCHANGED <<clientVars, entryVars, readerVars, mergeVars, mapperVars,
                   pacedVars>>

SharedVectors == {VecA, VecB}

InitShared ==
    /\ NoConnection /\ writers = <<>> /\ ReceiverInit /\ ClientIdle
    /\ EntryIdle /\ ReaderIdle /\ MergeIdle /\ MapperIdle /\ SharedIdle

NextShared ==
    \E k \in 1..MaxConnections :
        \/ SH_ConnectionMade(k)
        \/ \E session_type \in {LIVE, PLAYBACK} : SH_SessionType(k, session_type)
        \/ \E v \in SharedVectors : SH_Haptics(k, v)
        \/ SH_ConnectionLost(k)

SpecShared == InitShared /\ [][NextShared]_vars

\* SpecSessions: the same connections, which also end by quit or EOT, so that
\* on_session_end_cb runs twice for them; few vectors are followed
NextSessions ==
    \E k \in 1..MaxConnections :
        \/ SH_ConnectionMade(k)
        \/ \E session_type \in {LIVE, PLAYBACK} : SH_SessionType(k, session_type)
        \/ Len(sh_log) < MaxSessionVectors /\ SH_Haptics(k, VecA)
        \/ SH_Quit(k)
        \/ SH_ConnectionLost(k)

SpecSessions == InitShared /\ [][NextSessions]_vars

----------------------------------------------------------------------------
\* SpecPaced: the same connections with the pacing of their ACKs.  Transport
\* k is the one of connection k; a protocol object holds the number of its
\* transport, 0 for None.  A delayed task is named by the connection and the
\* txh command it was created for.

ProtocolOf_one_for_all(k) == 1

\* start_server: the factory given to create_server constructs a
\* HapticServerProtocol for every connection that is accepted
ProtocolOf(k) == k

\* __reset_connection()
ResetConnection(proto) ==
    [proto EXCEPT !.transport = 0, !.previous_cmd_txh_time = NoTime]

\* __send(message) of one protocol object: it writes to the transport it
\* holds and to no other
ProtocolSend(wires, proto, message, cause) ==
    [t \in DOMAIN wires |->
        [wires[t] EXCEPT !.wire =
            Send(@, IF proto.transport = t THEN "set" ELSE "none",
                 wires[t].closing, message, cause)]]

\* The delayed ACKs of connection k that are pending
PendingAcks(k) ==
    LET timers == pc_proto[ProtocolOf(k)].timers
    IN  { timers[i].cause : i \in { j \in 1..Len(timers) : timers[j].cause[1] = k } }

\* The txh commands delivered so far, over the first k connections
RECURSIVE Delivered(_)
Delivered(k) == IF k = 0 THEN 0 ELSE pc_wire[k].n + Delivered(k - 1)

PC_Untouched ==
    /\ UNCHANGED <<s_transport, s_closing, s_lost, s_prev_age, s_timers, s_wire,
                   s_cb, s_rx, s_ack_age, s_ack_gap>>
    /\ UNCHANGED <<clientVars, entryVars, readerVars, mergeVars, mapperVars>>

\* connection_made(transport)
PC_ConnectionMade(k) ==
    /\ sh_conns[k].state = "new"
    /\ pc_proto' = [pc_proto EXCEPT ![ProtocolOf(k)] =
                        [ResetConnection(@) EXCEPT !.transport = k]]
    /\ pc_ev' = [ev |-> "made", conn |-> k, orphan |-> FALSE]
    /\ SharedRuns(k, [state |-> "open", type |-> UNKNOWN, rec |-> 0, ends |-> 0],
                  <<OnSessionNew, OnSessionTypeSet(UNKNOWN)>>, <<>>)
    /\ UNCHANGED pc_wire
    /\ PC_Untouched

\* data_received of a well-formed txh command
PC_Txh(k, haptics_intensities_1) ==
    /\ sh_conns[k].state = "open"
    /\ Delivered(MaxConnections) < MaxPacedTxh
    /\ LET proto == pc_proto[ProtocolOf(k)]
           time_delta == TimeDelta(proto.previous_cmd_txh_time)
           cause == <<k, pc_wire[k].n + 1>>
           counted == [pc_wire EXCEPT ![k].n = @ + 1]
       IN  IF time_delta < MAX_UPDATE_RATE_SECS
           THEN \* ensure_future(__send_txh_reply_delayed(...))
                /\ Len(proto.timers) < MaxPending
                /\ pc_proto' = [pc_proto EXCEPT ![ProtocolOf(k)].timers =
                                    Append(@, [left |-> MAX_UPDATE_RATE_SECS - time_delta,
                                               cause |-> cause])]
                /\ pc_wire' = counted
           ELSE \* send immediately
                /\ pc_wire' = ProtocolSend(counted, proto, REPLY_GOOD, cause)
                /\ pc_proto' = [pc_proto EXCEPT
                                    ![ProtocolOf(k)].previous_cmd_txh_time = 0]
    /\ pc_ev' = [ev |-> "txh", conn |-> k, orphan |-> FALSE]
    /\ SharedRuns(k, sh_conns[k], <<OnHapticsUpdated(haptics_intensities_1)>>, <<>>)
    /\ PC_Untouched

\* data_received of quit or EOT: ACK, on_session_end_cb, transport.close()
PC_Quit(k) ==
    /\ sh_conns[k].state = "open"
    /\ pc_wire' = [ProtocolSend(pc_wire, pc_proto[ProtocolOf(k)], REPLY_GOOD, <<k, 0>>)
                       EXCEPT ![k].closing = TRUE,
                              ![k].orphans = @ \cup PendingAcks(k)]
    /\ pc_ev' = [ev |-> "quit", conn |-> k, orphan |-> FALSE]
    /\ SharedRuns(k, [sh_conns[k] EXCEPT !.state = "closing", !.ends = @ + 1],
                  <<OnSessionEnd>>, <<>>)
    /\ UNCHANGED pc_proto
    /\ PC_Untouched

\* connection_lost(exc): on_session_end_cb, __reset_connection()
PC_ConnectionLost(k) ==
    /\ sh_conns[k].state \in {"open", "closing"}
    /\ pc_proto' = [pc_proto EXCEPT ![ProtocolOf(k)] = ResetConnection(@)]
    /\ pc_wire' = [pc_wire EXCEPT ![k].closing = TRUE,
                                  ![k].orphans = @ \cup PendingAcks(k)]
    /\ pc_ev' = [ev |-> "lost", conn |-> k, orphan |-> FALSE]
    /\ SharedRuns(k, [state |-> "lost", type |-> UNKNOWN, rec |-> 0,
                      ends |-> sh_conns[k].ends + 1],
                  <<OnSessionEnd>>, <<>>)
    /\ PC_Untouched

\* __send_txh_reply_delayed(delay) of protocol object p, after its sleep
PC_SendTxhReplyDelayed(p, i) ==
    /\ i \in 1..Len(pc_proto[p].timers)
    /\ pc_proto[p].timers[i].left = 0
    /\ LET cause == pc_proto[p].timers[i].cause
       IN  /\ pc_wire' = ProtocolSend(pc_wire, pc_proto[p], REPLY_GOOD, cause)
           /\ pc_ev' = [ev |-> "ack", conn |-> cause[1],
                        orphan |-> cause \in pc_wire[cause[1]].orphans]
    /\ pc_proto' = [pc_proto EXCEPT ![p].timers = RemoveAt(@, i),
                                    ![p].previous_cmd_txh_time = 0]
    /\ UNCHANGED <<sh_conns, sh_log, receiver, writers>>
    /\ PC_Untouched

\* One time unit passes on the server
PC_Tick ==
    /\ \A p \in 1..MaxConnections :
           \A i \in 1..Len(pc_proto[p].timers) : pc_proto[p].timers[i].left > 0
    /\ pc_proto' = [p \in 1..MaxConnections |->
                        [pc_proto[p] EXCEPT
                            !.previous_cmd_txh_time = Age(@),
                            !.timers = [i \in 1..Len(@) |->
                                           [@[i] EXCEPT !.left = @ - 1]]]]
    /\ pc_ev' = [ev |-> "time", conn |-> 0, orphan |-> FALSE]
    /\ UNCHANGED <<pc_wire, sh_conns, sh_log, receiver, writers>>
    /\ PC_Untouched

NextPaced ==
    \/ \E k \in 1..MaxConnections :
           \/ PC_ConnectionMade(k)
           \/ PC_Txh(k, VecA)
           \/ PC_Quit(k)
           \/ PC_ConnectionLost(k)
           \/ \E i \in 1..MaxPending : PC_SendTxhReplyDelayed(k, i)
    \/ PC_Tick

\* The server before a connection, recording disabled
InitPaced ==
    /\ NoConnection /\ writers = <<>> /\ ReceiverIdle /\ ClientIdle
    /\ EntryIdle /\ ReaderIdle /\ MergeIdle /\ MapperIdle /\ SharedIdle

SpecPaced == InitPaced /\ [][NextPaced]_vars

----------------------------------------------------------------------------
\* Properties of the paced ACKs of several connections

\* A delayed ACK runs in this step that was pending when its connection closed
OrphanAckRuns == pc_ev'.ev = "ack" /\ pc_ev'.orphan

\* C39: a paced ACK that was pending when its connection closed is on the
\* wire of no transport, and the step in which its delayed task runs writes
\* nothing to any transport and leaves the protocol object of every other
\* connection as it was.
C39_PendingAckDropped ==
    /\ [](\A t \in 1..MaxConnections :
             \A i \in 1..Len(pc_wire[t].wire) :
                 LET cause == pc_wire[t].wire[i].cause
                 IN  cause \notin pc_wire[cause[1]].orphans)
    /\ [][OrphanAckRuns =>
              /\ pc_wire' = pc_wire
              /\ \A j \in 1..MaxConnections :
                     j # pc_ev'.conn =>
                         pc_proto'[ProtocolOf(j)] = pc_proto[ProtocolOf(j)]]_vars

\* C39 witness: the delayed ACK of a closed connection has just run while
\* another connection is open and has a paced ACK of its own pending.
C39_Witness ==
    /\ pc_ev.ev = "ack" /\ pc_ev.orphan
    /\ \E j \in 1..MaxConnections :
           /\ j # pc_ev.conn
           /\ sh_conns[j].state = "open"
           /\ pc_proto[ProtocolOf(j)].timers # <<>>

----------------------------------------------------------------------------
\* Properties of the writer

\* The inputs lines of a file, and the time and payload of the last one
InputsLines(lines) == SelectSeq(lines, IsInputsLine)
LastInputsLine(lines) == InputsLines(lines)[Len(InputsLines(lines))]
TimeOf(line) == line[1].v

\* append_record(haptics_entries) was the last call, on an open file
Appended(haptics_entries) ==
    /\ ~writers[1].closed
    /\ writers'[1].calls = <<haptics_entries>>

\* The step wrote one inputs line for haptics_entries at the end of the file
WroteLine(haptics_entries) ==
    /\ Len(InputsLines(writers'[1].lines)) = Len(InputsLines(writers[1].lines)) + 1
    /\ writers'[1].lines[Len(writers'[1].lines)] =
           <<Num(writers[1].now), COLON>> \o Join(haptics_entries) \o <<LF>>
    /\ SubSeq(writers'[1].lines, 1, Len(writers[1].lines)) = writers[1].lines

\* The payload differs from the last line written, if there is one
Differs(haptics_entries) ==
    \/ InputsLines(writers[1].lines) = <<>>
    \/ Join(haptics_entries) # PayloadOf(LastInputsLine(writers[1].lines))

\* The time since the last inputs line was written
SinceLastLine == writers[1].now - TimeOf(LastInputsLine(writers[1].lines))

\* C17: append_record writes an inputs line if and only if the payload
\* differs from the last written payload or at least 585 s have passed since
\* the last line was written
C17_WrittenIffAtLeastInterval ==
    [][\A haptics_entries \in WriterPayloads :
          Appended(haptics_entries) =>
              IF \/ Differs(haptics_entries)
                 \/ SinceLastLine >= RECORDING_DUPLICATE_INTERVAL_SECS
              THEN WroteLine(haptics_entries)
              ELSE writers'[1].lines = writers[1].lines]_vars

\* C17 (amended): append_record writes an inputs line if and only if the
\* payload differs from the last written payload or more than 585 s have
\* passed since the last line was written; a payload that repeats the last
\* line exactly 585 s after it is not written
C17_WrittenIffAfterInterval ==
    [][\A haptics_entries \in WriterPayloads :
          Appended(haptics_entries) =>
              IF \/ Differs(haptics_entries)
                 \/ SinceLastLine > RECORDING_DUPLICATE_INTERVAL_SECS
              THEN WroteLine(haptics_entries)
              ELSE writers'[1].lines = writers[1].lines]_vars

\* C17 witness: the file holds two lines in a row with the same payload, the
\* second written by the last call, more than 585 s after the first
C17_Witness ==
    LET lines == InputsLines(writers[1].lines)
    IN  /\ ~writers[1].closed
        /\ Len(lines) = 2
        /\ PayloadOf(lines[1]) = PayloadOf(lines[2])
        /\ writers[1].calls = << <<5000000>> >>
        /\ writers[1].dup_age = 0
        /\ TimeOf(lines[2]) - TimeOf(lines[1]) > RECORDING_DUPLICATE_INTERVAL_SECS

IsFooter(line) == Len(line) = 3 /\ line[1] = FOOTER_TIMESTAMP /\ line[3] = LF

\* C18: close appends exactly one footer line, "@session_end:" and the time,
\* as the last line of the file, also when no entry was written; an open
\* file has no footer, and no line is written to the file after the footer
C18_FooterIsLast ==
    /\ [](LET w == writers[1]
          IN  /\ Len(SelectSeq(w.lines, IsFooter)) = IF w.closed THEN 1 ELSE 0
              /\ w.closed => /\ IsFooter(w.lines[Len(w.lines)])
                             /\ w.flushed = Len(w.lines))
    /\ [][writers[1].closed =>
              /\ writers'[1].closed
              /\ writers'[1].lines = writers[1].lines]_vars

\* C18 witness: the file was closed before any entry was written, it holds
\* the two header lines and the footer, and append_record was called on it
\* after that
C18_Witness ==
    /\ writers[1].closed
    /\ Len(writers[1].lines) = 3
    /\ IsFooter(writers[1].lines[3])
    /\ writers[1].calls = << <<5000000>> >>
    /\ writers[1].flush = NoTime

----------------------------------------------------------------------------
\* Properties of the reader

\* The entries of the recording in file order, each with its line
FileRecords ==
    LET IsEntryLine(i) == /\ ~IsComment(rec_file[i])
                          /\ ~StartsWith(rec_file[i], FOOTER_TIMESTAMP)
        lines == SelectSeq([i \in 1..Len(rec_file) |-> i],
                           LAMBDA i : i > 2 /\ IsEntryLine(i))
    IN  [k \in 1..Len(lines) |->
            Record(lines[k], GetEntryFromLine(rec_file[lines[k]]).v)]

\* The first k requests do not decrease
Forwards(k) ==
    \A j \in 1..(k - 1) : rd_hist[j].time_delta <= rd_hist[j + 1].time_delta

\* The records an earlier call than the k-th returned
ReturnedBefore(k) ==
    UNION { { rd_hist[j].records[i] : i \in 1..Len(rd_hist[j].records) } :
            j \in 1..(k - 1) }

\* The entries the calls before the k-th have not come to: the reader passes
\* every entry earlier than a request
Ahead(k) ==
    LET NotPassed(r) == \A j \in 1..(k - 1) :
                            ~(r.entry.time_delta < rd_hist[j].time_delta)
    IN  SelectSeq(FileRecords, NotPassed)

NonMedia(records) == SelectSeq(records, LAMBDA r : ~IsMedia(r.entry))

\* C19: with entries and requests that do not decrease, the non-media
\* entries get_records_until(t) returns are, in file order, exactly those no
\* earlier call returned with t - 3 <= time_delta < t; no entry returned has
\* time_delta >= t, and no entry is returned by two calls
C19_RecentNonMediaOnce ==
    \A k \in 1..Len(rd_hist) :
        Forwards(k) =>
            LET t == rd_hist[k].time_delta
                records == rd_hist[k].records
                Due(r) == /\ ~IsMedia(r.entry)
                          /\ r \notin ReturnedBefore(k)
                          /\ t - MAX_PREV_SECONDS <= r.entry.time_delta
                          /\ r.entry.time_delta < t
            IN  /\ rd_hist[k].ok
                /\ NonMedia(records) = SelectSeq(FileRecords, Due)
                /\ \A i \in 1..Len(records) : records[i].entry.time_delta < t
                /\ \A i \in 1..Len(records) : records[i] \notin ReturnedBefore(k)
                /\ \A i, j \in 1..Len(records) :
                       records[i] = records[j] => i = j

\* C19 witness: of three inputs entries the first call returned the first,
\* and the second call, later, returned the third and not the second, which
\* was more than 3 s old by then
C19_Witness ==
    /\ Len(rd_hist) = 2 /\ Forwards(2)
    /\ Len(FileRecords) = 3
    /\ \A i \in 1..3 : ~IsMedia(FileRecords[i].entry)
    /\ rd_hist[1].records = <<FileRecords[1]>>
    /\ rd_hist[2].records = <<FileRecords[3]>>
    /\ FileRecords[2].entry.time_delta < rd_hist[2].time_delta - MAX_PREV_SECONDS

C21_BackwardSeekAsFresh ==
    \A k \in 2..Len(rd_hist) :
        rd_hist[k].time_delta < rd_hist[k - 1].time_delta =>
            LET file == WithHeader(rec_file, rd_hist[k].header)
                fresh == GetRecordsUntil(file, ReaderNew(file),
                                         rd_hist[k].time_delta)
            IN  /\ rd_hist[k].ok = fresh.rd.ok
                /\ rd_hist[k].records = fresh.records

\* The first line is the version marker and the second line starts with the
\* session-start marker
IsRecordingHeader(header) ==
    /\ Len(header) = 2
    /\ Strip(header[1]) = <<HEADER_VERSION>>
    /\ header[2] # <<>> /\ header[2][1] = HEADER_TIMESTAMP

\* C22: opening a reader on a file whose first line is not the version
\* marker, or whose second line does not start with the session-start
\* marker, fails and no entry of the file is returned; a request that
\* restarts the reader (it is earlier than the time the reader is at) runs
\* the same check and fails on such a header
C22_HeaderChecked ==
    /\ rd_hist = <<>> => (reader = NoReader <=> ~IsRecordingHeader(HeaderOf(rec_file)))
    /\ reader = NoReader => rd_hist = <<>>
    /\ \A k \in 1..Len(rd_hist) :
           rd_hist[k].restart =>
               /\ rd_hist[k].ok <=> IsRecordingHeader(rd_hist[k].header)
               /\ ~rd_hist[k].ok => rd_hist[k].records = <<>>

\* C22 witness: a reader returned an entry, the header was overwritten, and
\* the earlier request that followed failed
C22_Witness ==
    /\ Len(rd_hist) = 2
    /\ rd_hist[1].records # <<>>
    /\ rd_hist[2].time_delta < rd_hist[1].time_delta
    /\ rd_hist[2].restart
    /\ ~IsRecordingHeader(rd_hist[2].header)
    /\ ~rd_hist[2].ok

----------------------------------------------------------------------------
\* Properties of the playback mapper (SpecPlayback)

\* retrieve_inputs ran in this step, on a paused player
PausedRetrieve == pl_hist'.ev = "retrieve" /\ ~player.player_playing

\* C38: the position is never ahead of the position last assigned plus the
\* wall-clock time that has passed while the player was playing since, so
\* no time that passed while it was paused, the time before the first
\* play() included, is added to it; retrieve_inputs on a paused player
\* returns zeros, as many as the inputs seen last, and leaves the position
\* and the reader as they were
C38_AdvancesOnlyWhilePlaying ==
    /\ [](player.player_position_sec <= pl_hist.base + pl_hist.played)
    /\ [][PausedRetrieve =>
              /\ pl_hist'.v = Zeros(player.player_last_input_count)
              /\ player'.player_position_sec = player.player_position_sec
              /\ reader' = reader]_vars

----------------------------------------------------------------------------
\* Properties of merge_recordings

\* The earliest start among the inputs, and the offset of an input
EarliestStart ==
    CHOOSE t \in { StartOf(m_inputs[i]) : i \in 1..Len(m_inputs) } :
        \A i \in 1..Len(m_inputs) : t <= StartOf(m_inputs[i])
OffsetOf(input) == StartOf(m_inputs[input]) - EarliestStart

\* The offset-adjusted time_delta of the entry written k-th, from the input
\* it came from
AdjustedTime(k) ==
    TimeOf(m_inputs[m_out.origin[k].input][m_out.origin[k].line])
        + OffsetOf(m_out.origin[k].input)

\* The entry lines of the output
MergedLines == SelectSeq(m_out.lines, LAMBDA l : l[1].k = "num")

InputEntries ==
    { <<i, l>> \in (1..Len(m_inputs)) \X (1..(2 + MaxMergeEntries)) :
          /\ l > 2 /\ l <= Len(m_inputs[i])
          /\ m_inputs[i][l][1].k = "num" }

\* C24: the header timestamp of the output is the earliest recording start
\* of the inputs, and the footer timestamp is that start plus the largest
\* offset-adjusted time_delta of the entries of the inputs
C24_HeaderAndFooter ==
    m_out.made =>
        /\ m_out.lines[2] = <<HEADER_TIMESTAMP, Stamp(EarliestStart), LF>>
        /\ InputEntries # {} =>
               \E e \in InputEntries :
                   /\ \A f \in InputEntries :
                          TimeOf(m_inputs[f[1]][f[2]]) + OffsetOf(f[1])
                              <= TimeOf(m_inputs[e[1]][e[2]]) + OffsetOf(e[1])
                   /\ m_out.lines[Len(m_out.lines)] =
                          <<FOOTER_TIMESTAMP,
                            Stamp(EarliestStart
                                  + Round(TimeOf(m_inputs[e[1]][e[2]])
                                          + OffsetOf(e[1]))),
                            LF>>

\* The timestamp of a header or footer line
StampOf(line) == Strip(Tail(line))[1].v

\* C40: when merge_recordings has written the footer, its timestamp is not
\* earlier than the timestamp of the header it wrote, also when no input
\* recording has an entry
C40_FooterNotBeforeHeader ==
    (m_out.made /\ ~m_out.raised) =>
        StampOf(m_out.lines[Len(m_out.lines)]) >= StampOf(m_out.lines[2])

SortsBefore(i, j) ==
    \/ StartOf(m_inputs[i]) < StartOf(m_inputs[j])
    \/ StartOf(m_inputs[i]) = StartOf(m_inputs[j]) /\ i < j

WrittenEntries ==
    { <<m_out.origin[k].input, m_out.origin[k].line>> :
          k \in 1..Len(m_out.origin) }

\* C32: merge_recordings comes to its end for every list of recordings, and
\* has then written every entry of every input recording, media entries
\* included, exactly once, with the entry's time_delta moved by the offset
\* of its recording from the earliest start
C32_EveryEntryOnce ==
    m_out.called /\ m_inputs # <<>> =>
        /\ m_out.made /\ ~m_out.raised
        /\ IsFooter(m_out.lines[Len(m_out.lines)])
        /\ WrittenEntries = InputEntries
        /\ Len(m_out.origin) = Cardinality(InputEntries)
        /\ Len(MergedLines) = Len(m_out.origin)
        /\ \A k \in 1..Len(MergedLines) :
               TimeOf(MergedLines[k]) = Round(AdjustedTime(k))

\* The file begins with the version marker line and a session-start line
\* that carries a timestamp
HasRecordingHeader(file) ==
    /\ Len(file) >= 2
    /\ Strip(file[1]) = <<HEADER_VERSION>>
    /\ Len(file[2]) >= 2
    /\ file[2][1] = HEADER_TIMESTAMP
    /\ file[2][2].k = "stamp"

\* C33: when an input recording has no header or an invalid one, the merge
\* raises, and the output file was not opened: nothing is created and
\* nothing is written
C33_CorruptInputFails ==
    (/\ m_out.called
     /\ \E i \in 1..Len(m_inputs) : ~HasRecordingHeader(m_inputs[i]))
    => /\ m_out.raised
       /\ ~m_out.made
       /\ m_out.lines = <<>>

\* C33 witness: a recording with entries was given first and a file with
\* another version marker second; the merge raised
C33_Witness ==
    /\ m_out.called /\ m_out.raised
    /\ Len(m_inputs) = 2
    /\ HasRecordingHeader(m_inputs[1]) /\ Len(m_inputs[1]) > 3
    /\ ~HasRecordingHeader(m_inputs[2])
    /\ Len(m_inputs[2]) = 4
    /\ m_inputs[2][1] = <<Tok("RemoteHapticsRecording:9.9"), LF>>

----------------------------------------------------------------------------
\* Properties of the feedback mapper (SpecMapper)

\* No timer is pending and impact, boost and |value - average| are all 0
AtRest ==
    /\ mp_loop = <<>>
    /\ mapper.physics_timer = 0
    /\ mapper.physics_calc_impact = 0
    /\ mapper.physics_calc_impact_boost = 0
    /\ mapper.physics_calc_avg_value = mapper.previous_value

\* The mapper was given 1 and then 0, and the last update held 0 one tick
\* after the update before it
InHold == mp_hist.impulse /\ mp_hist.hold >= 1

\* C26: after the input 1, while the input 0 is held and the update runs once
\* per tick, the strong output never rises from one tick to the next, it is 0
\* after DecayTicks ticks at the latest, and once it is 0 no timer is pending
\* and impact, boost and |value - average| are exactly 0, and stay so
C26_ImpulseDecays ==
    /\ [](InHold /\ mp_out.strong = 0 => AtRest)
    /\ [](InHold /\ mp_hist.hold >= DecayTicks => mp_out.strong = 0)
    /\ [][InHold /\ mp_hist'.hold > mp_hist.hold
            => mp_out'.strong <= mp_out.strong]_vars
    /\ [][InHold /\ AtRest /\ InHold' => AtRest']_vars

\* The timer re-invoked the update tick after tick until the output was 0
C26_Witness ==
    /\ InHold
    /\ mp_hist.hold >= 20
    /\ mp_hist.ev = "timer"
    /\ mp_out.strong = 0
    /\ AtRest

\* impact, boost and |value - average| are all exactly 0
AllZero ==
    /\ mapper.physics_calc_impact = 0
    /\ mapper.physics_calc_impact_boost = 0
    /\ mapper.physics_calc_avg_value = mapper.previous_value

\* This step ran __physics_update, from parse_inputs or from the timer
UpdateStep == mp_hist'.ev \in {"update", "timer"}

\* This step scheduled a handle
Armed ==
    Len(mp_loop') > Len(mp_loop) - (IF mp_hist'.ev = "timer" THEN 1 ELSE 0)

\* C27: at most one physics timer is pending; an update arms one exactly when
\* impact, boost or |value - average| is nonzero after it and none is pending,
\* so that one is pending after every such update; the handle that fires is
\* gone and its update is given the previous value; and once all three are 0
\* after an update, nothing arms a timer but an update with a new input
C27_OneTimerWhileMoving ==
    /\ [](Len(mp_loop) <= 1)
    /\ [](mp_hist.handler \in {"update", "timer"} /\ ~AllZero => Len(mp_loop) = 1)
    /\ [][UpdateStep => (Armed <=> /\ ~AllZero'
                                   /\ \/ mp_hist'.ev = "timer"
                                      \/ mapper.physics_timer = 0)]_vars
    /\ [][mp_hist'.ev = "timer"
            => /\ mp_loop # <<>> /\ mp_loop[1] = 0
               /\ mapper'.previous_value = mapper.previous_value]_vars
    /\ [][/\ mp_hist.handler \in {"update", "timer"} /\ AllZero
          /\ mp_hist'.ev # "update"
          => ~Armed]_vars

\* The timer fired while the mapper was still moving and was armed again
C27_Witness ==
    /\ mp_hist.ev = "timer"
    /\ mp_hist.n >= 2
    /\ ~AllZero
    /\ mp_loop = <<MAX_UPDATE_RATE_SECS>>
    /\ mapper.physics_timer = 1

\* C28: an update whose elapsed time is above PERSIST_DURATION_SECS, the first
\* update of a mapper included, leaves impact, boost and the average unchanged
C28_LongGapKeepsPhysics ==
    [][UpdateStep /\ mp_hist'.time_delta > PERSIST_DURATION_SECS
        => /\ mapper'.physics_calc_impact = mapper.physics_calc_impact
           /\ mapper'.physics_calc_impact_boost = mapper.physics_calc_impact_boost
           /\ mapper'.physics_calc_avg_value = mapper.physics_calc_avg_value]_vars

\* C29: after an absent input the outputs are (0, 0), no timer is pending and
\* previous value, average, impact and boost have their initial values
C29_AbsentResets ==
    mp_hist.ev = "absent"
    => /\ mp_out = [strong |-> 0, weak |-> 0]
       /\ mp_loop = <<>>
       /\ mapper.physics_timer = 0
       /\ mapper.previous_value = 0
       /\ mapper.physics_calc_avg_value = 0
       /\ mapper.physics_calc_impact = 0
       /\ mapper.physics_calc_impact_boost = 0

\* on_session_end_cb handed None to the mapper, and no input came since
SessionEnded == mp_hist.handler = "absent"

\* C37: when a session ends, on_session_end_cb hands None to every mapper:
\* the mapper's outputs are (0, 0) and no physics timer is pending, and the
\* outputs stay as they are until parse_inputs is given a vector
C37_SilentAfterSessionEnd ==
    /\ [](SessionEnded => /\ mp_out = [strong |-> 0, weak |-> 0]
                          /\ mp_loop = <<>>
                          /\ mapper.physics_timer = 0)
    /\ [][SessionEnded /\ mp_out' # mp_out => mp_hist'.ev = "update"]_vars

\* C37 witness: the session ended while the physics of an impulse was
\* running and its timer was pending; time has passed since
C37_Witness ==
    /\ SessionEnded
    /\ mp_hist.ev = "time"
    /\ mapper.physics_calc_impact > 0
    /\ mapper.previous_value > 0
    /\ mp_out = [strong |-> 0, weak |-> 0]

----------------------------------------------------------------------------
\* Properties of the client's send loop (SpecClientAcked)

\* C34: while the client is ACTIVE and every txh is answered by one ACK,
\* the txh commands not yet answered and the delayed re-checks pending are
\* exactly one together: never two txh unanswered, never two re-checks
C34_OneInFlight ==
    c_state = "ACTIVE" => c_unacked + Len(c_timers) = 1

\* C34 witness: the client is ACTIVE, has sent two txh and had the first
\* answered, and in between a re-check found nothing to send
C34_Witness ==
    /\ c_state = "ACTIVE"
    /\ TxhCount(c_out) = 2
    /\ c_unacked = 1
    /\ c_timers = <<>>
    /\ c_ev = "delayed"

----------------------------------------------------------------------------
\* Properties of rejected commands (SpecServer)

\* The step wrote a reply that begins with INVALID_REQUEST
AnsweredInvalid ==
    /\ Len(s_rx') = Len(s_rx) + 1
    /\ Len(s_wire') = Len(s_wire) + 1
    /\ SubSeq(s_wire'[Len(s_wire')].msg, 1, Len(REPLY_INVALID)) = REPLY_INVALID

\* The callbacks made in the step
NewCallbacks == SubSeq(s_cb', Len(s_cb) + 1, Len(s_cb'))

\* C31: a read that is answered with INVALID_REQUEST (unknown command,
\* unknown session type, txh payload that does not parse) invokes neither
\* the session-type nor the haptics-updated callback, also when the first
\* values of the txh payload are valid, schedules no paced ACK, and leaves
\* the connection's pacing timestamp as it was
C31_RejectedHasNoEffect ==
    [][AnsweredInvalid =>
          /\ \A i \in 1..Len(NewCallbacks) :
                 NewCallbacks[i].cb \notin {"session_type_set", "haptics_updated"}
          /\ s_prev_age' = s_prev_age
          /\ s_timers' = s_timers]_vars

\* C31 witness: after an acknowledged txh, a txh whose first value is valid
\* and whose second is not was answered with INVALID_REQUEST
C31_Witness ==
    /\ Len(s_rx) = 2
    /\ WellFormedTxh(s_rx[1])
    /\ s_rx[2] = TxhLine(VecA) \o TxhLine(VecB)
    /\ Len(s_wire) = 2
    /\ s_wire[2] = [msg |-> Framed(REPLY_INVALID), cause |-> 2]
    /\ Len(HapticsOf(s_cb)) = 1
    /\ s_prev_age # NoTime

----------------------------------------------------------------------------
\* Properties of the session callbacks of a connection (SpecServer)

\* The places in the callback log of the calls of one callback
CallsOf(cb) == { i \in 1..Len(s_cb) : s_cb[i].cb = cb }

\* C36: on an accepted connection on_session_new_cb is called exactly once,
\* before every other callback; on_session_end_cb is called at most once
\* while the connection lasts and exactly once by the time it is lost, as
\* the last callback and so after the last haptics update, whether the
\* connection ends by quit, by EOT or by the peer closing it
C36_SessionCallbacksOnce ==
    /\ s_cb # <<>> => CallsOf("session_new") = {1}
    /\ Cardinality(CallsOf("session_end")) <= 1
    /\ s_lost => /\ Cardinality(CallsOf("session_end")) = 1
                 /\ s_cb[Len(s_cb)].cb = "session_end"

----------------------------------------------------------------------------
\* Properties of the recordings of several sessions (SpecSessions)

\* The session of connection k ends in this step
SessionEnds(k) == sh_conns'[k].ends > sh_conns[k].ends

\* C35: whatever the connections do, at most one writer is open, and it is
\* the manager's recorder; when a session ends, the writer that was opened
\* for it is closed; a closed file ends with its footer, holds no other
\* footer and is not written again, also when on_session_end_cb runs twice
\* for a connection; an open file has no footer
C35_OneWriterOneFooter ==
    /\ [](\A i \in 1..Len(writers) :
            /\ ~writers[i].closed => receiver.recorder = i
            /\ Len(SelectSeq(writers[i].lines, IsFooter))
                   = IF writers[i].closed THEN 1 ELSE 0
            /\ writers[i].closed =>
                   IsFooter(writers[i].lines[Len(writers[i].lines)]))
    /\ [][/\ \A k \in 1..MaxConnections :
                 SessionEnds(k) /\ sh_conns[k].rec # 0
                 => writers'[sh_conns[k].rec].closed
          /\ \A i \in 1..Len(writers) :
                 writers[i].closed => writers'[i] = writers[i]]_vars

\* C35 witness: a connection recorded a vector of its live session and quit;
\* on_session_end_cb ran twice for it, and its file is closed with one footer
C35_Witness ==
    /\ sh_conns[1].state = "lost" /\ sh_conns[1].ends = 2
    /\ Len(sh_log) = 1 /\ sh_log[1].conn = 1 /\ sh_log[1].handed = 1
    /\ writers[1].closed
    /\ Len(SelectSeq(writers[1].lines, IsFooter)) = 1
    /\ Len(InputsLines(writers[1].lines)) = 1

----------------------------------------------------------------------------
\* Properties of several connections to one receiver (SpecShared)

\* C30: with several connections open, a vector is handed to a recording
\* writer only if the connection it was received on was live; every vector
\* received on a live connection is handed to the writer opened for that
\* session; and the recording of a live session stays open, and stays the
\* one that is written to, whatever the other connections do
C30_SessionsIsolated ==
    /\ \A i \in 1..Len(sh_log) : sh_log[i].handed # 0 => sh_log[i].type = LIVE
    /\ receiver.recording_enabled =>
          /\ \A i \in 1..Len(sh_log) :
                 sh_log[i].type = LIVE => /\ sh_log[i].handed # 0
                                          /\ sh_log[i].handed = sh_log[i].rec
          /\ \A k \in 1..MaxConnections :
                 sh_conns[k].state = "open" /\ sh_conns[k].type = LIVE
                 => /\ sh_conns[k].rec # 0
                    /\ receiver.recorder = sh_conns[k].rec
                    /\ ~writers[sh_conns[k].rec].closed

====
